---------------------------- MODULE Spec2Model ----------------------------
(***************************************************************************)
(* Model of src/dashboard.py: a Streamlit script that loads a table of     *)
(* campaign-day records, filters it by the sidebar widgets and derives     *)
(* KPIs, period-over-period deltas, blended ratios and grouped aggregates. *)
(*                                                                         *)
(* One script run is a sequence of steps (pc): the sidebar widgets are     *)
(* read, the filters are applied, the Overview tab, the selected Deep      *)
(* Dive section and the export are computed.  Every widget interaction     *)
(* reruns the script from the top.                                         *)
(*                                                                         *)
(* Numbers: the script computes in float64.  The model computes in exact   *)
(* rationals <<n, d>> (d > 0, lowest terms) extended with the three float  *)
(* specials NaN = <<0,0>>, +inf = <<1,0>>, -inf = <<-1,0>>, so that a      *)
(* division by zero has the outcome numpy gives it.                        *)
(***************************************************************************)
EXTENDS Integers, Sequences, FiniteSets, TLC

VARIABLES
    df,                  \* the Record Store (load_data), a sequence of rows
    tie_orders,          \* the order the build's sort gives each tied key array
    start_date,          \* st.date_input, first component
    end_date,            \* st.date_input, second component
    selected_clients,    \* st.multiselect "Select Client(s)"
    selected_objectives, \* st.multiselect "Select Campaign Objective"
    pc,                  \* position of the script run
    filtered_df,         \* df[mask]
    no_data,             \* st.warning("No data available ...") was shown
    computed,            \* sections of the script that ran in this run
    prev_start,          \* first day of the previous period
    prev_end,            \* last day of the previous period
    prev_filtered_df,    \* df[mask_prev]
    curr_spend, curr_purchase, curr_roas, curr_cpc, curr_ctr,
    prev_spend, prev_purchase, prev_roas, prev_cpc, prev_ctr,
    \* the delta= argument of the five headline cards
    delta_spend, delta_purchase, delta_roas, delta_cpc, delta_ctr,
    top_client_name,     \* Market Dominance: the client named
    top_client_val,      \* Market Dominance: its revenue
    best_obj_name,       \* Efficiency Winner: the objective named
    best_obj_val,        \* Efficiency Winner: its ROAS
    daily_trend,         \* KPI charts: the daily aggregate
    anomaly_error,       \* KPI charts: the detection's try block raised
    anomalies,           \* KPI charts: the flagged rows of daily_trend
    spend_by_client,     \* KPI charts: Proporsi Spend by Client
    roas_by_obj,         \* KPI charts: Average ROAS by Campaign Objective
    \* Performance Metrics
    overall_ctr, overall_roas_metric, roas_sales_only, ctr_by_obj,
    selection,           \* st.radio "Navigate Analysis:"
    monthly_trend,       \* Time & Trend: the monthly aggregate
    ramadhan_lift,       \* Time & Trend: the "Ramadhan Impact" card
    weekend_lift,        \* Time & Trend: the "Weekend Impact" card
    anomaly_error_b2,    \* Time & Trend: the detection's try block raised
    anomalies_b2,        \* Time & Trend: the flagged rows of daily_trend
    industry_perf,       \* Industry & Client: the industry aggregate
    client_perf,         \* Industry & Client: the (client, industry) aggregate
    \* Industry & Client: the ranked tables
    industry_sorted_rev, industry_sorted_roas, client_top_rev,
    funnel_number,       \* Marketing Funnel: funnel_data['number']
    funnel_ctr, atc_rate, cart_conv, overall_cv,
    client_matrix,       \* Strategy: the client aggregate
    \* Strategy: the Traffic-to-Sales reallocation
    traffic_spend, sales_roas_benchmark, reallocation_pct, budget_moved,
    potential_revenue_gain, current_total_rev, projected_growth_pct,
    \* Strategy: the client-to-client simulator
    source_client, target_client, transfer_pct, transfer_amount,
    rev_lost, rev_gained, net_revenue_impact, new_total_rev,
    total_spend_global, old_global_roas, new_global_roas,
    recommendation,      \* st.success or st.error of the simulator
    client_agg,          \* generate_excel: the Client Performance sheet
    raw_data,            \* generate_excel: the Raw Data sheet
    csv_data,            \* the Raw Data (CSV) download
    last_run             \* history: what the run before this one showed

-----------------------------------------------------------------------------
(* Bounds of the model *)

\* most rows the Record Store holds
MaxRecords == 2

\* most days of a daily series
MaxDays == 10

\* most days of a daily series that are off the series' base level
MaxSpikes == 2

-----------------------------------------------------------------------------
(* float64 arithmetic as exact rationals with NaN and the infinities *)

NaN == <<0, 0>>

Abs(i) == IF i < 0 THEN -i ELSE i

Sign(i) == IF i < 0 THEN -1 ELSE IF i > 0 THEN 1 ELSE 0

RECURSIVE GCD(_, _)
GCD(a, b) == IF b = 0 THEN a ELSE GCD(b, a % b)

\* the number n/d; n/0 is an infinity of n's sign and 0/0 is NaN
Norm(n, d) ==
    IF d = 0 THEN <<Sign(n), 0>>
    ELSE LET g == GCD(Abs(n), Abs(d))
         IN  <<(Sign(d) * n) \div g, Abs(d) \div g>>

FromInt(i) == <<i, 1>>

IsNaN(x) == x = NaN

IsFinite(x) == x[2] > 0

RNeg(x) == <<-x[1], x[2]>>

RAdd(x, y) ==
    IF IsNaN(x) \/ IsNaN(y) THEN NaN
    ELSE IF ~IsFinite(x) /\ ~IsFinite(y) THEN (IF x = y THEN x ELSE NaN)
    ELSE IF ~IsFinite(x) THEN x
    ELSE IF ~IsFinite(y) THEN y
    ELSE LET g == GCD(x[2], y[2])
         IN  Norm(x[1] * (y[2] \div g) + y[1] * (x[2] \div g), (x[2] \div g) * y[2])

RSub(x, y) == RAdd(x, RNeg(y))

RMul(x, y) ==
    IF IsNaN(x) \/ IsNaN(y) THEN NaN
    ELSE IF ~IsFinite(x) \/ ~IsFinite(y) \/ x[1] = 0 \/ y[1] = 0
         THEN Norm(x[1] * y[1], x[2] * y[2])
    ELSE LET g == GCD(Abs(x[1]), y[2])
             h == GCD(Abs(y[1]), x[2])
         IN  Norm((x[1] \div g) * (y[1] \div h), (x[2] \div h) * (y[2] \div g))

\* x / y on numpy scalars and Series: a zero divisor gives inf or NaN, no exception
RDiv(x, y) ==
    IF IsNaN(x) \/ IsNaN(y) THEN NaN
    ELSE IF ~IsFinite(y) THEN (IF IsFinite(x) THEN FromInt(0) ELSE NaN)
    ELSE RMul(x, Norm(y[2], y[1]))

\* x < y; every comparison with NaN is false
RLt(x, y) ==
    /\ ~IsNaN(x)
    /\ ~IsNaN(y)
    /\ IF ~IsFinite(x) /\ ~IsFinite(y) THEN x[1] < y[1]
       ELSE LET g == GCD(x[2], y[2])
            IN  x[1] * (y[2] \div g) < y[1] * (x[2] \div g)

RGt(x, y) == RLt(y, x)

\* x == y; NaN equals nothing, itself included
REq(x, y) == ~IsNaN(x) /\ ~IsNaN(y) /\ x = y

RECURSIVE SumInts(_)
SumInts(s) == IF s = <<>> THEN 0 ELSE Head(s) + SumInts(Tail(s))

RECURSIVE SumRats(_)
SumRats(s) == IF s = <<>> THEN FromInt(0) ELSE RAdd(Head(s), SumRats(Tail(s)))

RECURSIVE DropNaN(_)
DropNaN(s) ==
    IF s = <<>> THEN <<>>
    ELSE IF IsNaN(Head(s)) THEN DropNaN(Tail(s))
    ELSE <<Head(s)>> \o DropNaN(Tail(s))

\* ColSum leaving out the last row
ColSumButLast(rows, col) == SumInts([i \in 1..(Len(rows) - 1) |-> rows[i][col]])

\* Series.sum() of a numeric column
ColSum(rows, col) == SumInts([i \in 1..Len(rows) |-> rows[i][col]])

\* Series.mean(): missing values are skipped; NaN when nothing is left
ColMean(rows, col) ==
    LET vals == DropNaN([i \in 1..Len(rows) |-> rows[i][col]])
    IN  IF vals = <<>> THEN NaN
        ELSE RDiv(SumRats(vals), FromInt(Len(vals)))

-----------------------------------------------------------------------------
(* Dates: calendar days of 2023 as day-of-year ordinals *)

DaysBeforeMonth == <<0, 31, 59, 90, 120, 151, 181, 212, 243, 273, 304, 334>>

\* pd.to_datetime of the date 2023-m-d
Ordinal(m, d) == DaysBeforeMonth[m] + d

\* Series.dt.to_period('M')
MonthOf(date) ==
    CHOOSE m \in 1..12 :
        /\ DaysBeforeMonth[m] < date
        /\ (m = 12 \/ date <= DaysBeforeMonth[m + 1])

\* the is_weekend flag of a record: its date is a Saturday or a Sunday.
\* 2023-01-01 was a Sunday, so day n of 2023 is day (n - 1) % 7 of the week
\* counted from Sunday
IsWeekend(date) == (date - 1) % 7 \in {0, 6}

\* the is_ramadhan flag of a record: its date is in the Ramadhan window of
\* the seasonal calendar, 2023-03-23 to 2023-04-21
IsRamadhan(date) == Ordinal(3, 23) <= date /\ date <= Ordinal(4, 21)

-----------------------------------------------------------------------------
(* The Record Store: marketing_data.csv *)

\* client_name, campaign_objective and industry in lexical order
ClientOrder == <<"Client A", "Client B">>
ObjectiveOrder == <<"Sales", "Traffic">>
IndustryOrder == <<"Beauty", "Fashion">>

Clients == {ClientOrder[i] : i \in 1..Len(ClientOrder)}

IndustryOf(client) == IF client = "Client A" THEN "Beauty" ELSE "Fashion"

\* created_date values: 2023-03-21, 2023-03-22 and 2023-04-01
Dates == {Ordinal(3, 21), Ordinal(3, 22), Ordinal(4, 1)}

\* the measures of one campaign-day: a Sales campaign that delivered, a
\* Sales campaign that did not run, a Traffic campaign without purchases
Campaigns ==
    { [campaign_objective |-> "Sales", amount_spent |-> 1, purchase_value |-> 2,
       impressions |-> 10, clicks |-> 1, add_to_cart |-> 1, purchase |-> 1],
      [campaign_objective |-> "Sales", amount_spent |-> 0, purchase_value |-> 0,
       impressions |-> 0, clicks |-> 0, add_to_cart |-> 0, purchase |-> 0],
      [campaign_objective |-> "Traffic", amount_spent |-> 3, purchase_value |-> 0,
       impressions |-> 20, clicks |-> 4, add_to_cart |-> 0, purchase |-> 0] }

\* the derived columns of a row; a ratio with a zero denominator is a
\* missing value
DerivedRoas(c) ==
    IF c.amount_spent > 0 THEN Norm(c.purchase_value, c.amount_spent) ELSE NaN

DerivedCpc(c) ==
    IF c.clicks > 0 THEN Norm(c.amount_spent, c.clicks) ELSE NaN

DerivedCtr(c) ==
    IF c.impressions > 0 THEN Norm(c.clicks * 100, c.impressions) ELSE NaN

Row(date, client, c) ==
    [created_date |-> date, client_name |-> client, industry |-> IndustryOf(client),
     campaign_objective |-> c.campaign_objective,
     amount_spent |-> c.amount_spent, purchase_value |-> c.purchase_value,
     impressions |-> c.impressions, clicks |-> c.clicks,
     add_to_cart |-> c.add_to_cart, purchase |-> c.purchase,
     roas |-> DerivedRoas(c), cpc |-> DerivedCpc(c), ctr_percentage |-> DerivedCtr(c),
     is_weekend |-> IsWeekend(date), is_ramadhan |-> IsRamadhan(date)]

Rows == {Row(d, cl, c) : d \in Dates, cl \in Clients, c \in Campaigns}

\* the columns of marketing_data.csv
StoreColumns ==
    {"created_date", "client_name", "industry", "campaign_objective",
     "amount_spent", "purchase_value", "impressions", "clicks", "add_to_cart",
     "purchase", "roas", "cpc", "ctr_percentage", "is_weekend", "is_ramadhan"}

\* a time-indexed table: rows in date order
IsTimeOrdered(s) ==
    \A i \in 1..(Len(s) - 1) : s[i].created_date <= s[i + 1].created_date

Stores ==
    {s \in UNION {[1..n -> Rows] : n \in 1..MaxRecords} : IsTimeOrdered(s)}

\* load_data
load_data(store) == store

-----------------------------------------------------------------------------
(* Sidebar widgets *)

ColValues(rows, col) == {rows[i][col] : i \in 1..Len(rows)}

SetMin(S) == CHOOSE x \in S : \A y \in S : x <= y
SetMax(S) == CHOOSE x \in S : \A y \in S : x >= y

min_date == SetMin(ColValues(df, "created_date"))
max_date == SetMax(ColValues(df, "created_date"))

client_list == ColValues(df, "client_name")
objective_list == ColValues(df, "campaign_objective")

-----------------------------------------------------------------------------
(* Apply Filters *)

RECURSIVE Select(_, _)
\* df[mask]: the rows whose mask entry is true, in the order of df
Select(rows, mask) ==
    IF rows = <<>> THEN <<>>
    ELSE (IF Head(mask) THEN <<Head(rows)>> ELSE <<>>)
         \o Select(Tail(rows), Tail(mask))

\* DateMask with the last day left out
DateMaskOpenEnd(row, first, last) ==
    /\ row.created_date >= first
    /\ row.created_date < last

\* lines 105-106
DateMask(row, first, last) ==
    /\ row.created_date >= first
    /\ row.created_date <= last

CategoryMask(row, clients, objectives) ==
    /\ row.client_name \in clients
    /\ row.campaign_objective \in objectives

mask(rows, clients, objectives, first, last) ==
    [i \in 1..Len(rows) |->
        CategoryMask(rows[i], clients, objectives) /\ DateMask(rows[i], first, last)]

-----------------------------------------------------------------------------
(* Overview tab: Executive Summary *)

\* lines 127-129: (current_end - current_start).days
delta_days(first, last) == last - first

\* PrevEnd without the day between the two periods
PrevEndSameDay(first, last) == first

\* line 132: current_start - pd.Timedelta(days=1)
PrevEnd(first, last) == first - 1

\* PrevStart counting the days of the range inclusively
PrevStartInclusive(first, last) == PrevEnd(first, last) - (delta_days(first, last) + 1)

\* line 133: prev_end - pd.Timedelta(days=delta_days)
PrevStart(first, last) == PrevEnd(first, last) - delta_days(first, last)

\* lines 137-140
mask_prev(rows, clients, objectives, first, last) ==
    [i \in 1..Len(rows) |->
        /\ CategoryMask(rows[i], clients, objectives)
        /\ rows[i].created_date >= PrevStart(first, last)
        /\ rows[i].created_date <= PrevEnd(first, last)]

\* the nearest integer to the finite x, ties to the even one
RoundHalfEven(x) ==
    LET q == x[1] \div x[2]
        r == x[1] % x[2]
    IN  IF 2 * r < x[2] THEN q
        ELSE IF 2 * r > x[2] THEN q + 1
        ELSE IF q % 2 = 0 THEN q ELSE q + 1

Pow10(k) == IF k = 1 THEN 10 ELSE 100

\* f"{x:.kf}": the digits shown, as the integer x * 10^k rounded; nan and
\* inf are printed as such
Fixed(x, k) ==
    IF IsNaN(x) THEN <<"nan", 0>>
    ELSE IF ~IsFinite(x) THEN <<"inf", x[1]>>
    ELSE <<"num", RoundHalfEven(RMul(x, FromInt(Pow10(k))))>>

None == [kind |-> "None", value |-> <<"none", 0>>]

\* calculate_delta reporting the relative change on both branches
calculate_delta_relative(current_val, prev_val, is_percentage) ==
    IF REq(prev_val, FromInt(0)) THEN None
    ELSE LET diff == RSub(current_val, prev_val)
             percent_change == RMul(RDiv(diff, prev_val), FromInt(100))
         IN  IF is_percentage
             THEN [kind |-> "% (pts)", value |-> Fixed(percent_change, 2)]
             ELSE [kind |-> "% vs Prev", value |-> Fixed(percent_change, 1)]

\* lines 145-154
calculate_delta(current_val, prev_val, is_percentage) ==
    IF REq(prev_val, FromInt(0)) THEN None
    ELSE LET diff == RSub(current_val, prev_val)
             percent_change == RMul(RDiv(diff, prev_val), FromInt(100))
         IN  IF is_percentage
             THEN [kind |-> "% (pts)", value |-> Fixed(diff, 2)]
             ELSE [kind |-> "% vs Prev", value |-> Fixed(percent_change, 1)]

\* IsPercentageCard with the flag also set on the ROAS card
IsPercentageCardRoas(card) == card \in {"Avg CTR", "Avg ROAS"}

\* lines 181-207: the is_percentage argument of each card's call
IsPercentageCard(card) == card = "Avg CTR"

\* HeadlineMean as the blended ratio of the view for the roas column
HeadlineMeanBlended(view, col) ==
    IF col = "roas"
    THEN (IF ColSum(view, "amount_spent") > 0
          THEN RDiv(FromInt(ColSum(view, "purchase_value")),
                    FromInt(ColSum(view, "amount_spent")))
          ELSE FromInt(0))
    ELSE ColMean(view, col)

\* lines 159-161: filtered_df[col].mean()
HeadlineMean(view, col) == ColMean(view, col)

\* PrevMean without the empty-view fallback
PrevMeanNoFallback(view, col) == ColMean(view, col)

\* lines 166-168: the mean of a previous-period column, 0 for an empty view
PrevMean(view, col) == IF view # <<>> THEN ColMean(view, col) ELSE FromInt(0)

\* AfterFilter without the st.stop()
AfterFilterNoStop(view) == "summary"

\* lines 110-112: st.stop() on an empty view
AfterFilter(view) == IF view = <<>> THEN "stopped" ELSE "summary"

-----------------------------------------------------------------------------
(* Grouping and ratios *)

RECURSIVE SelectRows(_, _, _)
\* rows[rows[col] == key]
SelectRows(rows, col, key) ==
    IF rows = <<>> THEN <<>>
    ELSE (IF Head(rows)[col] = key THEN <<Head(rows)>> ELSE <<>>)
         \o SelectRows(Tail(rows), col, key)

\* GroupKeys with the key of the first row as the only group
GroupKeysOfFirst(rows, col, order) == <<rows[1][col]>>

RECURSIVE GroupKeys(_, _, _)
\* the keys of rows.groupby(col): the values of col that occur in rows, in
\* sorted order (order lists the values of col in that order)
GroupKeys(rows, col, order) ==
    IF order = <<>> THEN <<>>
    ELSE (IF \E i \in 1..Len(rows) : rows[i][col] = Head(order)
          THEN <<Head(order)>> ELSE <<>>)
         \o GroupKeys(rows, col, Tail(order))

MonthOrder == <<1, 2, 3, 4, 5, 6, 7, 8, 9, 10, 11, 12>>

\* (num / den) if den > 0 else 0
SafeRatio(num, den) == IF den > 0 THEN RDiv(FromInt(num), FromInt(den)) ELSE FromInt(0)

\* SafeRate without the guard
SafeRateUnguarded(num, den) == RMul(RDiv(FromInt(num), FromInt(den)), FromInt(100))

\* (num / den * 100) if den > 0 else 0
SafeRate(num, den) ==
    IF den > 0 THEN RMul(RDiv(FromInt(num), FromInt(den)), FromInt(100))
    ELSE FromInt(0)

\* GroupRoas as the mean of the group's per-row roas
GroupRoasOfMeans(rows) == ColMean(rows, "roas")

\* np.where(spend > 0, revenue / spend, 0) on the sums of one group
GroupRoas(rows) ==
    LET revenue == ColSum(rows, "purchase_value")
        spend == ColSum(rows, "amount_spent")
    IN  IF spend > 0 THEN RDiv(FromInt(revenue), FromInt(spend)) ELSE FromInt(0)

-----------------------------------------------------------------------------
(* Sorting *)

\* the orders of n rows
Perms(n) == {p \in [1..n -> 1..n] : \A i, j \in 1..n : p[i] = p[j] => i = j}

\* x is sorted strictly before y in descending order; missing values go last
SortsBefore(x, y) == (~IsNaN(x) /\ IsNaN(y)) \/ RGt(x, y)

\* the orders DataFrame.sort_values(ascending=False) may give rows with these
\* keys: descending, missing values last
Argsorts(keys) ==
    {p \in Perms(Len(keys)) :
        \A i, j \in 1..Len(keys) : i < j => ~SortsBefore(keys[p[j]], keys[p[i]])}

\* the rows of a table in the order p
Take(table, p) == [k \in 1..Len(table) |-> table[p[k]]]

\* the key arrays whose order the keys do not decide
Tied(arrays) == {keys \in arrays : Cardinality(Argsorts(keys)) > 1}

\* Sorts with a sort that may order the same array differently each time
SortsAnew(orders, arrays) ==
    LET tied == DOMAIN orders \cup Tied(arrays)
    IN  {m \in [tied -> UNION {Argsorts(keys) : keys \in tied}] :
            \A keys \in tied : m[keys] \in Argsorts(keys)}

\* the sort is a function of the array it is given: the orders it gave so
\* far (orders) stay, and each tied array it sorts for the first time gets
\* one of the orders it may have
Sorts(orders, arrays) ==
    LET tied == DOMAIN orders \cup Tied(arrays)
    IN  IF tied = DOMAIN orders THEN {orders}
        ELSE {m \in [tied -> UNION {Argsorts(keys) : keys \in tied}] :
                 /\ \A keys \in tied : m[keys] \in Argsorts(keys)
                 /\ \A keys \in DOMAIN orders : m[keys] = orders[keys]}

\* DataFrame.sort_values(col, ascending=False), where keys[k] is the value of
\* col in row k.  The default sort kind is not stable: rows with equal keys
\* come out in the order that the build's sort gives the array (orders)
Sorted(table, keys, orders) ==
    Take(table, IF keys \in DOMAIN orders THEN orders[keys]
                ELSE CHOOSE p \in Argsorts(keys) : TRUE)

\* the values of a column of a table
Column(table, col) == [k \in 1..Len(table) |-> table[k][col]]

\* the values of an integer column, as numbers
IntColumn(table, col) == [k \in 1..Len(table) |-> FromInt(table[k][col])]

RECURSIVE SortedSeq(_)
\* the members of a set of integers in ascending order
SortedSeq(S) ==
    IF S = {} THEN <<>>
    ELSE LET m == CHOOSE x \in S : \A y \in S : x <= y
         IN  <<m>> \o SortedSeq(S \ {m})

-----------------------------------------------------------------------------
(* Overview tab: Automated Data Highlights and KPI charts *)

\* lines 243 and 318: groupby('campaign_objective')['roas'].mean()
RoasByObj(view) ==
    LET keys == GroupKeys(view, "campaign_objective", ObjectiveOrder)
    IN  [k \in 1..Len(keys) |->
            LET g == SelectRows(view, "campaign_objective", keys[k])
            IN  [campaign_objective |-> keys[k], roas |-> ColMean(g, "roas")]]

\* lines 243-245: .sort_values(ascending=False).head(1)
BestObjData(view, orders) ==
    LET by_obj == RoasByObj(view)
    IN  Sorted(by_obj, Column(by_obj, "roas"), orders)[1]

\* line 222: groupby('client_name')['purchase_value'].sum()
RevenueByClient(view) ==
    LET keys == GroupKeys(view, "client_name", ClientOrder)
    IN  [k \in 1..Len(keys) |->
            [client_name |-> keys[k],
             purchase_value |->
                 ColSum(SelectRows(view, "client_name", keys[k]), "purchase_value")]]

\* line 304: groupby('client_name')['amount_spent'].sum()
SpendByClient(view) ==
    LET keys == GroupKeys(view, "client_name", ClientOrder)
    IN  [k \in 1..Len(keys) |->
            [client_name |-> keys[k],
             amount_spent |->
                 ColSum(SelectRows(view, "client_name", keys[k]), "amount_spent")]]

\* lines 222-224: .sort_values(ascending=False).head(1)
TopClientData(view, orders) ==
    LET by_client == RevenueByClient(view)
    IN  Sorted(by_client, IntColumn(by_client, "purchase_value"), orders)[1]

\* line 262: groupby('created_date')[['amount_spent', 'purchase_value']].sum()
DailyTrend(view) ==
    LET keys == SortedSeq(ColValues(view, "created_date"))
    IN  [k \in 1..Len(keys) |->
            LET g == SelectRows(view, "created_date", keys[k])
            IN  [created_date |-> keys[k],
                 amount_spent |-> ColSum(g, "amount_spent"),
                 purchase_value |-> ColSum(g, "purchase_value")]]

\* line 498: groupby('created_date')[['purchase_value']].sum()
DailyRevenue(view) ==
    LET keys == SortedSeq(ColValues(view, "created_date"))
    IN  [k \in 1..Len(keys) |->
            LET g == SelectRows(view, "created_date", keys[k])
            IN  [created_date |-> keys[k],
                 purchase_value |-> ColSum(g, "purchase_value")]]

\* rolling(window=7)
Window == 7

\* the 2 of rolling_mean +- 2 * rolling_std
Sigmas == 2

\* the Window values that end at row i
WindowAt(values, i) == [j \in 1..Window |-> values[i - Window + j]]

\* rolling(window=7).mean() at row i; missing for the first Window - 1 rows
RollingMean(values, i) ==
    IF i < Window THEN NaN
    ELSE Norm(SumInts(WindowAt(values, i)), Window)

\* RollingVar dividing by the number of points of the window
RollingVarPopulation(values, i) ==
    IF i < Window THEN NaN
    ELSE LET w == WindowAt(values, i)
             sum == SumInts(w)
             squares == SumInts([j \in 1..Window |-> w[j] * w[j]])
         IN  Norm(Window * squares - sum * sum, Window * Window)

\* the square of rolling(window=7).std() at row i, the sample standard
\* deviation (ddof=1); missing for the first Window - 1 rows
RollingVar(values, i) ==
    IF i < Window THEN NaN
    ELSE LET w == WindowAt(values, i)
             sum == SumInts(w)
             squares == SumInts([j \in 1..Window |-> w[j] * w[j]])
         IN  Norm(Window * squares - sum * sum, Window * (Window - 1))

\* x > m + Sigmas * std, decided on the squares; false when m is missing
AboveBand(x, m, var) ==
    /\ RGt(RSub(x, m), FromInt(0))
    /\ RGt(RMul(RSub(x, m), RSub(x, m)), RMul(FromInt(Sigmas * Sigmas), var))

\* x < m - Sigmas * std, decided on the squares; false when m is missing
BelowBand(x, m, var) ==
    /\ RLt(RSub(x, m), FromInt(0))
    /\ RGt(RMul(RSub(x, m), RSub(x, m)), RMul(FromInt(Sigmas * Sigmas), var))

\* IsAnomaly with the missing band of the first rows filled with 0
IsAnomalyFilled(values, i) ==
    IF i < Window THEN values[i] > 0
    ELSE \/ AboveBand(FromInt(values[i]), RollingMean(values, i), RollingVar(values, i))
         \/ BelowBand(FromInt(values[i]), RollingMean(values, i), RollingVar(values, i))

\* lines 270-271: daily_trend['is_anomaly'] at row i
IsAnomaly(values, i) ==
    \/ AboveBand(FromInt(values[i]), RollingMean(values, i), RollingVar(values, i))
    \/ BelowBand(FromInt(values[i]), RollingMean(values, i), RollingVar(values, i))

\* the body of the try block, lines 266-274
Flagged(trend) ==
    IF Len(trend) > Window
    THEN LET values == [i \in 1..Len(trend) |-> trend[i].purchase_value]
         IN  Select(trend, [i \in 1..Len(trend) |-> IsAnomaly(values, i)])
    ELSE <<>>

\* the statements of the try block that can raise are those of the
\* len(daily_trend) > 7 branch
CanRaise(trend) == IF Len(trend) > Window THEN BOOLEAN ELSE {FALSE}

\* DetectAnomalies letting a failure of the try block show
DetectAnomaliesUncaught(trend, raised) == IF raised THEN <<"Exception">> ELSE Flagged(trend)

\* lines 265-276: try ... except Exception: anomalies = pd.DataFrame()
DetectAnomalies(trend, raised) == IF raised THEN <<>> ELSE Flagged(trend)

-----------------------------------------------------------------------------
(* Overview tab: Performance Metrics *)

\* lines 369-372
SalesRoas(view) ==
    LET sales_only_df == SelectRows(view, "campaign_objective", "Sales")
    IN  SafeRatio(ColSum(sales_only_df, "purchase_value"),
                  ColSum(sales_only_df, "amount_spent"))

\* lines 385-386: clicks / impressions * 100 per objective, unguarded
CtrByObj(view) ==
    LET keys == GroupKeys(view, "campaign_objective", ObjectiveOrder)
    IN  [k \in 1..Len(keys) |->
            LET g == SelectRows(view, "campaign_objective", keys[k])
                clicks == ColSum(g, "clicks")
                impressions == ColSum(g, "impressions")
            IN  [campaign_objective |-> keys[k], clicks |-> clicks,
                 impressions |-> impressions,
                 ctr |-> RMul(RDiv(FromInt(clicks), FromInt(impressions)),
                              FromInt(100))]]

-----------------------------------------------------------------------------
(* Deep Dive tab *)

nav_options ==
    <<"Time & Trend Analysis", "Industry & Client Breakdown",
      "Marketing Funnel Analysis", "Strategy & Quadrant Matrix">>

\* line 492: filtered_df['month'] = filtered_df['created_date'].dt.to_period('M')
WithMonth(view) ==
    [i \in 1..Len(view) |->
        [col \in DOMAIN view[i] \cup {"month"} |->
            IF col = "month" THEN MonthOf(view[i].created_date) ELSE view[i][col]]]

\* lines 493-494
MonthlyTrend(view) ==
    LET keys == GroupKeys(view, "month", MonthOrder)
    IN  [k \in 1..Len(keys) |->
            LET g == SelectRows(view, "month", keys[k])
            IN  [month |-> keys[k],
                 purchase_value |-> ColSum(g, "purchase_value"),
                 amount_spent |-> ColSum(g, "amount_spent"),
                 roas |-> GroupRoas(g)]]

\* the mean of a column of integers
IntMean(rows, col) == RDiv(FromInt(ColSum(rows, col)), FromInt(Len(rows)))

\* lines 514-519 and 522-527: the lift of the mean revenue of the flagged
\* records over that of the others
Lift(view, flag) ==
    LET avg_flagged == IntMean(SelectRows(view, flag, TRUE), "purchase_value")
        avg_rest == IntMean(SelectRows(view, flag, FALSE), "purchase_value")
    IN  IF RGt(avg_rest, FromInt(0))
        THEN RMul(RDiv(RSub(avg_flagged, avg_rest), avg_rest), FromInt(100))
        ELSE FromInt(0)

\* lines 675-679
IndustryPerf(view) ==
    LET keys == GroupKeys(view, "industry", IndustryOrder)
    IN  [k \in 1..Len(keys) |->
            LET g == SelectRows(view, "industry", keys[k])
            IN  [industry |-> keys[k],
                 total_revenue |-> ColSum(g, "purchase_value"),
                 avg_daily_revenue |-> IntMean(g, "purchase_value"),
                 total_spend |-> ColSum(g, "amount_spent"),
                 avg_daily_spend |-> IntMean(g, "amount_spent"),
                 roas |-> GroupRoas(g)]]

RECURSIVE Flatten(_)
Flatten(ss) == IF ss = <<>> THEN <<>> ELSE Head(ss) \o Flatten(Tail(ss))

\* lines 686-687: groupby(['client_name', 'industry'])
ClientPerf(view) ==
    LET clients == GroupKeys(view, "client_name", ClientOrder)
    IN  Flatten([c \in 1..Len(clients) |->
            LET ofClient == SelectRows(view, "client_name", clients[c])
                industries == GroupKeys(ofClient, "industry", IndustryOrder)
            IN  [k \in 1..Len(industries) |->
                    LET g == SelectRows(ofClient, "industry", industries[k])
                    IN  [client_name |-> clients[c], industry |-> industries[k],
                         purchase_value |-> ColSum(g, "purchase_value"),
                         amount_spent |-> ColSum(g, "amount_spent"),
                         roas |-> GroupRoas(g)]]])

\* line 817: the add_to_cart column is optional
AtcVal(view) ==
    IF "add_to_cart" \in DOMAIN view[1] THEN ColSum(view, "add_to_cart") ELSE 0

\* lines 819-827
FunnelNumber(view) ==
    <<ColSum(view, "impressions"), ColSum(view, "clicks"), AtcVal(view),
      ColSum(view, "purchase")>>

\* lines 882-883
ClientMatrix(view) ==
    LET keys == GroupKeys(view, "client_name", ClientOrder)
    IN  [k \in 1..Len(keys) |->
            LET g == SelectRows(view, "client_name", keys[k])
            IN  [client_name |-> keys[k],
                 purchase_value |-> ColSum(g, "purchase_value"),
                 amount_spent |-> ColSum(g, "amount_spent"),
                 roas |-> GroupRoas(g)]]

\* line 898: the fallback benchmark 1.62
FallbackRoas == Norm(162, 100)

\* SalesRoasBenchmark falling back only when the view has no Sales rows
SalesRoasBenchmarkUnguarded(view) ==
    LET sales_only_data == SelectRows(view, "campaign_objective", "Sales")
    IN  IF sales_only_data # <<>>
        THEN RDiv(FromInt(ColSum(sales_only_data, "purchase_value")),
                  FromInt(ColSum(sales_only_data, "amount_spent")))
        ELSE FallbackRoas

\* lines 894-898
SalesRoasBenchmark(view) ==
    LET sales_only_data == SelectRows(view, "campaign_objective", "Sales")
    IN  IF sales_only_data # <<>> /\ ColSum(sales_only_data, "amount_spent") > 0
        THEN RDiv(FromInt(ColSum(sales_only_data, "purchase_value")),
                  FromInt(ColSum(sales_only_data, "amount_spent")))
        ELSE FallbackRoas

\* line 891
TrafficSpend(view) ==
    ColSum(SelectRows(view, "campaign_objective", "Traffic"), "amount_spent")

\* amount * (pct / 100)
Share(amount, pct) == RMul(FromInt(amount), RDiv(FromInt(pct), FromInt(100)))

\* line 911
ProjectedGrowthPct(gain, total_rev) ==
    IF total_rev > 0 THEN RMul(RDiv(gain, FromInt(total_rev)), FromInt(100))
    ELSE FromInt(0)

\* the slider defaults: value=50 (line 905) and 20 (line 1040)
ReallocationDefault == 50
TransferDefault == 20

\* st.selectbox over an empty list of options returns None
NoSelection == "None"

\* lines 1018-1019: the options of the source selectbox
SourceOpts(matrix) == {matrix[k].client_name : k \in 1..Len(matrix)}

\* TargetOpts without the exclusion of the source
TargetOptsAll(matrix, source) == SourceOpts(matrix)

\* line 1029: [c for c in ... if c != source_client]
TargetOpts(matrix, source) == SourceOpts(matrix) \ {source}

\* line 1030: what the target selectbox can return
TargetChoice(matrix, source) ==
    IF TargetOpts(matrix, source) = {} THEN {NoSelection}
    ELSE TargetOpts(matrix, source)

\* lines 1021 and 1033: client_matrix[client_matrix['client_name'] == c].iloc[0]
ClientData(matrix, client) ==
    matrix[CHOOSE k \in 1..Len(matrix) : matrix[k].client_name = client]

\* line 1032 and 1045: if target_client
Truthy(choice) == choice # NoSelection

\* RevGained at the source's ROAS
RevGainedAtSourceRoas(amount, source_data, target_data) == RMul(amount, source_data.roas)

\* line 1049
RevGained(amount, source_data, target_data) == RMul(amount, target_data.roas)

\* lines 1058-1059: revenue / total_spend_global if total_spend_global > 0 else 0
GlobalRoas(revenue, spend) ==
    IF spend > 0 THEN RDiv(revenue, FromInt(spend)) ELSE FromInt(0)

\* Recommendation with an impact of 0 counted as a gain
RecommendationFromZero(impact) ==
    IF RLt(impact, FromInt(0)) THEN "error" ELSE "success"

\* lines 1082-1085
Recommendation(impact) ==
    IF RGt(impact, FromInt(0)) THEN "success" ELSE "error"

-----------------------------------------------------------------------------
(* Export *)

\* lines 1182-1183: purchase_value / amount_spent per client, unguarded
ClientAgg(df_source) ==
    LET keys == GroupKeys(df_source, "client_name", ClientOrder)
    IN  [k \in 1..Len(keys) |->
            LET g == SelectRows(df_source, "client_name", keys[k])
                spend == ColSum(g, "amount_spent")
                revenue == ColSum(g, "purchase_value")
            IN  [client_name |-> keys[k], amount_spent |-> spend,
                 purchase_value |-> revenue,
                 roas |-> RDiv(FromInt(revenue), FromInt(spend))]]

\* nothing written yet
NoTable == [columns |-> {}, rows |-> <<>>]

\* the columns of a non-empty frame
Columns(frame) == DOMAIN frame[1]

\* line 1187: df_source.to_excel(writer, sheet_name='Raw Data', index=False),
\* a header of the frame's columns and one line per row
to_excel(df_source) == [columns |-> Columns(df_source), rows |-> df_source]

\* line 1222: filtered_df.to_csv(index=False)
to_csv(frame) == [columns |-> Columns(frame), rows |-> frame]

-----------------------------------------------------------------------------
(* The script run *)

widgets == <<start_date, end_date, selected_clients, selected_objectives>>

viewVars == <<filtered_df, no_data>>

summaryVars ==
    <<prev_start, prev_end, prev_filtered_df,
      curr_spend, curr_purchase, curr_roas, curr_cpc, curr_ctr,
      prev_spend, prev_purchase, prev_roas, prev_cpc, prev_ctr,
      delta_spend, delta_purchase, delta_roas, delta_cpc, delta_ctr,
      top_client_name, top_client_val, best_obj_name, best_obj_val,
      anomaly_error, anomalies, spend_by_client, roas_by_obj>>

perfVars == <<overall_ctr, overall_roas_metric, roas_sales_only, ctr_by_obj>>

trendVars ==
    <<monthly_trend, ramadhan_lift, weekend_lift, anomaly_error_b2, anomalies_b2>>

industryVars ==
    <<industry_perf, client_perf, industry_sorted_rev, industry_sorted_roas,
      client_top_rev>>

funnelVars == <<funnel_number, funnel_ctr, atc_rate, cart_conv, overall_cv>>

strategyVars ==
    <<client_matrix, traffic_spend, sales_roas_benchmark, reallocation_pct,
      budget_moved, potential_revenue_gain, current_total_rev,
      projected_growth_pct, source_client, target_client, transfer_pct,
      transfer_amount, rev_lost, rev_gained, net_revenue_impact, new_total_rev,
      total_spend_global, old_global_roas, new_global_roas, recommendation>>

deepVars == <<selection, trendVars, industryVars, funnelVars, strategyVars>>

exportVars == <<client_agg, raw_data, csv_data>>

vars ==
    <<df, tie_orders, last_run, widgets, pc, computed, viewVars, summaryVars, daily_trend, perfVars,
      deepVars, exportVars>>

\* the arguments of the run and the tables it showed
ThisRun ==
    [computed |-> computed,
     store |-> df,
     arguments |-> widgets,
     view |-> filtered_df,
     top_client_name |-> top_client_name,
     best_obj_name |-> best_obj_name,
     industry_perf |-> industry_perf,
     client_perf |-> client_perf,
     industry_sorted_rev |-> industry_sorted_rev,
     industry_sorted_roas |-> industry_sorted_roas,
     client_top_rev |-> client_top_rev,
     selection |-> selection,
     raw_data |-> raw_data,
     csv_data |-> csv_data]

\* no run went before
NoRun == [computed |-> {}]

\* what the names of a run hold before their lines are reached
ViewUnset ==
    /\ filtered_df = <<>>
    /\ no_data = FALSE

SummaryUnset ==
    /\ prev_start = 0
    /\ prev_end = 0
    /\ prev_filtered_df = <<>>
    /\ curr_spend = 0
    /\ curr_purchase = 0
    /\ curr_roas = NaN
    /\ curr_cpc = NaN
    /\ curr_ctr = NaN
    /\ prev_spend = 0
    /\ prev_purchase = 0
    /\ prev_roas = NaN
    /\ prev_cpc = NaN
    /\ prev_ctr = NaN
    /\ delta_spend = None
    /\ delta_purchase = None
    /\ delta_roas = None
    /\ delta_cpc = None
    /\ delta_ctr = None
    /\ top_client_name = "unset"
    /\ top_client_val = 0
    /\ best_obj_name = "unset"
    /\ best_obj_val = NaN
    /\ daily_trend = <<>>
    /\ anomaly_error = FALSE
    /\ anomalies = <<>>
    /\ spend_by_client = <<>>
    /\ roas_by_obj = <<>>

PerfUnset ==
    /\ overall_ctr = NaN
    /\ overall_roas_metric = NaN
    /\ roas_sales_only = NaN
    /\ ctr_by_obj = <<>>

DeepUnset ==
    /\ selection = "unset"
    /\ monthly_trend = <<>>
    /\ ramadhan_lift = NaN
    /\ weekend_lift = NaN
    /\ anomaly_error_b2 = FALSE
    /\ anomalies_b2 = <<>>
    /\ industry_perf = <<>>
    /\ client_perf = <<>>
    /\ industry_sorted_rev = <<>>
    /\ industry_sorted_roas = <<>>
    /\ client_top_rev = <<>>
    /\ funnel_number = <<>>
    /\ funnel_ctr = NaN
    /\ atc_rate = NaN
    /\ cart_conv = NaN
    /\ overall_cv = NaN
    /\ client_matrix = <<>>
    /\ traffic_spend = 0
    /\ sales_roas_benchmark = NaN
    /\ reallocation_pct = 0
    /\ budget_moved = NaN
    /\ potential_revenue_gain = NaN
    /\ current_total_rev = 0
    /\ projected_growth_pct = NaN
    /\ source_client = "unset"
    /\ target_client = "unset"
    /\ transfer_pct = 0
    /\ transfer_amount = NaN
    /\ rev_lost = NaN
    /\ rev_gained = NaN
    /\ net_revenue_impact = NaN
    /\ new_total_rev = NaN
    /\ total_spend_global = 0
    /\ old_global_roas = NaN
    /\ new_global_roas = NaN
    /\ recommendation = "unset"

ExportUnset ==
    /\ client_agg = <<>>
    /\ raw_data = NoTable
    /\ csv_data = NoTable

Unset ==
    /\ ViewUnset
    /\ SummaryUnset
    /\ PerfUnset
    /\ DeepUnset
    /\ ExportUnset

Init ==
    /\ df \in {load_data(s) : s \in Stores}
    /\ tie_orders = <<>>
    /\ last_run = NoRun
    /\ start_date = min_date
    /\ end_date = max_date
    /\ selected_clients = client_list
    /\ selected_objectives = objective_list
    /\ pc = "sidebar"
    /\ computed = {}
    /\ Unset

\* lines 62-100: the session's widgets are set; the date picker offers
\* [min_date, max_date], the multiselects offer the values of df
Sidebar ==
    /\ pc = "sidebar"
    /\ \E s \in Dates, e \in Dates :
          /\ min_date <= s
          /\ s <= e
          /\ e <= max_date
          /\ start_date' = s
          /\ end_date' = e
    /\ selected_clients' \in SUBSET client_list
    /\ selected_objectives' \in SUBSET objective_list
    /\ pc' = "filter"
    /\ UNCHANGED <<df, tie_orders, last_run, computed, viewVars, summaryVars, daily_trend, perfVars, deepVars,
                   exportVars>>

\* lines 102-112
ApplyFilters ==
    /\ pc = "filter"
    /\ filtered_df' =
          Select(df, mask(df, selected_clients, selected_objectives,
                          start_date, end_date))
    /\ pc' = AfterFilter(filtered_df')
    /\ no_data' = (pc' = "stopped")
    /\ UNCHANGED <<df, tie_orders, last_run, widgets, computed, summaryVars, daily_trend, perfVars, deepVars,
                   exportVars>>

\* lines 123-340: the headline cards, the data highlights and the KPI charts
ExecutiveSummary ==
    /\ pc = "summary"
    /\ prev_start' = PrevStart(start_date, end_date)
    /\ prev_end' = PrevEnd(start_date, end_date)
    /\ prev_filtered_df' =
          Select(df, mask_prev(df, selected_clients, selected_objectives,
                               start_date, end_date))
    /\ curr_spend' = ColSum(filtered_df, "amount_spent")
    /\ curr_purchase' = ColSum(filtered_df, "purchase_value")
    /\ curr_roas' = HeadlineMean(filtered_df, "roas")
    /\ curr_cpc' = HeadlineMean(filtered_df, "cpc")
    /\ curr_ctr' = HeadlineMean(filtered_df, "ctr_percentage")
    /\ prev_spend' = ColSum(prev_filtered_df', "amount_spent")
    /\ prev_purchase' = ColSum(prev_filtered_df', "purchase_value")
    /\ prev_roas' = PrevMean(prev_filtered_df', "roas")
    /\ prev_cpc' = PrevMean(prev_filtered_df', "cpc")
    /\ prev_ctr' = PrevMean(prev_filtered_df', "ctr_percentage")
    /\ delta_spend' = calculate_delta(FromInt(curr_spend'), FromInt(prev_spend'),
                                      IsPercentageCard("Total Spend"))
    /\ delta_purchase' = calculate_delta(FromInt(curr_purchase'), FromInt(prev_purchase'),
                                         IsPercentageCard("Total Purchase Value"))
    /\ delta_roas' = calculate_delta(curr_roas', prev_roas', IsPercentageCard("Avg ROAS"))
    /\ delta_cpc' = calculate_delta(curr_cpc', prev_cpc', IsPercentageCard("Avg CPC"))
    /\ delta_ctr' = calculate_delta(curr_ctr', prev_ctr', IsPercentageCard("Avg CTR"))
    /\ tie_orders' \in
          Sorts(tie_orders,
                {IntColumn(RevenueByClient(filtered_df), "purchase_value"),
                 Column(RoasByObj(filtered_df), "roas")})
    /\ LET top_client_data == TopClientData(filtered_df, tie_orders')
           best_obj_data == BestObjData(filtered_df, tie_orders')
       IN  /\ top_client_name' = top_client_data.client_name
           /\ top_client_val' = top_client_data.purchase_value
           /\ best_obj_name' = best_obj_data.campaign_objective
           /\ best_obj_val' = best_obj_data.roas
    /\ daily_trend' = DailyTrend(filtered_df)
    /\ anomaly_error' \in CanRaise(daily_trend')
    /\ anomalies' = DetectAnomalies(daily_trend', anomaly_error')
    /\ spend_by_client' = SpendByClient(filtered_df)
    /\ roas_by_obj' = RoasByObj(filtered_df)
    /\ computed' = computed \cup {"kpi", "delta", "highlights", "charts"}
    /\ pc' = "performance"
    /\ UNCHANGED <<df, last_run, widgets, viewVars, perfVars, deepVars, exportVars>>

\* lines 342-419
PerformanceMetrics ==
    /\ pc = "performance"
    /\ overall_ctr' = SafeRate(ColSum(filtered_df, "clicks"),
                               ColSum(filtered_df, "impressions"))
    /\ overall_roas_metric' = SafeRatio(ColSum(filtered_df, "purchase_value"),
                                        ColSum(filtered_df, "amount_spent"))
    /\ roas_sales_only' = SalesRoas(filtered_df)
    /\ ctr_by_obj' = CtrByObj(filtered_df)
    /\ computed' = computed \cup {"performance"}
    /\ pc' = "deep_dive"
    /\ UNCHANGED <<df, tie_orders, last_run, widgets, viewVars, summaryVars, daily_trend, deepVars, exportVars>>

\* TimeTrendAnalysis with filtered_df sharing its columns with df
TimeTrendAnalysisOnStore ==
    /\ pc = "deep_dive"
    /\ selection' = nav_options[1]
    /\ filtered_df' = WithMonth(filtered_df)
    /\ df' = WithMonth(df)
    /\ monthly_trend' = MonthlyTrend(filtered_df')
    /\ ramadhan_lift' = Lift(filtered_df', "is_ramadhan")
    /\ weekend_lift' = Lift(filtered_df', "is_weekend")
    /\ daily_trend' = DailyRevenue(filtered_df')
    /\ anomaly_error_b2' \in CanRaise(daily_trend')
    /\ anomalies_b2' = DetectAnomalies(daily_trend', anomaly_error_b2')
    /\ computed' = computed \cup {"monthly_trend", "daily_revenue", "lifts"}
    /\ pc' = "export"
    /\ UNCHANGED <<tie_orders, last_run, widgets, no_data, summaryVars, perfVars,
                   industryVars, funnelVars, strategyVars, exportVars>>

\* lines 479-655: the section assigns a month column to filtered_df, which
\* df[mask] made a table of its own, and rebuilds daily_trend
TimeTrendAnalysis ==
    /\ pc = "deep_dive"
    /\ selection' = nav_options[1]
    /\ filtered_df' = WithMonth(filtered_df)
    /\ monthly_trend' = MonthlyTrend(filtered_df')
    /\ ramadhan_lift' = Lift(filtered_df', "is_ramadhan")
    /\ weekend_lift' = Lift(filtered_df', "is_weekend")
    /\ daily_trend' = DailyRevenue(filtered_df')
    /\ anomaly_error_b2' \in CanRaise(daily_trend')
    /\ anomalies_b2' = DetectAnomalies(daily_trend', anomaly_error_b2')
    /\ computed' = computed \cup {"monthly_trend", "daily_revenue", "lifts"}
    /\ pc' = "export"
    /\ UNCHANGED <<df, tie_orders, last_run, widgets, no_data, summaryVars, perfVars, industryVars,
                   funnelVars, strategyVars, exportVars>>

\* lines 661-794
IndustryClientBreakdown ==
    /\ pc = "deep_dive"
    /\ selection' = nav_options[2]
    /\ industry_perf' = IndustryPerf(filtered_df)
    /\ client_perf' = ClientPerf(filtered_df)
    /\ tie_orders' \in
          Sorts(tie_orders,
                {IntColumn(industry_perf', "total_revenue"),
                 Column(industry_perf', "roas"),
                 IntColumn(client_perf', "purchase_value")})
    /\ industry_sorted_rev' =
          Sorted(industry_perf', IntColumn(industry_perf', "total_revenue"),
                 tie_orders')
    /\ industry_sorted_roas' =
          Sorted(industry_perf', Column(industry_perf', "roas"), tie_orders')
    /\ client_top_rev' =
          Sorted(client_perf', IntColumn(client_perf', "purchase_value"),
                 tie_orders')
    /\ computed' = computed \cup {"industry_perf", "client_perf"}
    /\ pc' = "export"
    /\ UNCHANGED <<df, last_run, widgets, viewVars, summaryVars, daily_trend, perfVars, trendVars,
                   funnelVars, strategyVars, exportVars>>

\* lines 800-865
MarketingFunnelAnalysis ==
    /\ pc = "deep_dive"
    /\ selection' = nav_options[3]
    /\ funnel_number' = FunnelNumber(filtered_df)
    /\ funnel_ctr' = SafeRate(funnel_number'[2], funnel_number'[1])
    /\ atc_rate' = SafeRate(funnel_number'[3], funnel_number'[2])
    /\ cart_conv' = SafeRate(funnel_number'[4], funnel_number'[3])
    /\ overall_cv' = SafeRate(funnel_number'[4], funnel_number'[2])
    /\ computed' = computed \cup {"funnel"}
    /\ pc' = "export"
    /\ UNCHANGED <<df, tie_orders, last_run, widgets, viewVars, summaryVars, daily_trend, perfVars, trendVars,
                   industryVars, strategyVars, exportVars>>

\* lines 871-1119 with the two sliders drawn from reallocation_pcts and
\* transfer_pcts
Strategy(reallocation_pcts, transfer_pcts) ==
    /\ pc = "deep_dive"
    /\ selection' = nav_options[4]
    /\ client_matrix' = ClientMatrix(filtered_df)
    /\ traffic_spend' = TrafficSpend(filtered_df)
    /\ sales_roas_benchmark' = SalesRoasBenchmark(filtered_df)
    /\ reallocation_pct' \in reallocation_pcts
    /\ budget_moved' = Share(traffic_spend', reallocation_pct')
    /\ potential_revenue_gain' = RMul(budget_moved', sales_roas_benchmark')
    /\ current_total_rev' = ColSum(filtered_df, "purchase_value")
    /\ projected_growth_pct' =
          ProjectedGrowthPct(potential_revenue_gain', current_total_rev')
    /\ source_client' \in SourceOpts(client_matrix')
    /\ target_client' \in TargetChoice(client_matrix', source_client')
    /\ transfer_pct' \in transfer_pcts
    /\ transfer_amount' =
          Share(ClientData(client_matrix', source_client').amount_spent, transfer_pct')
    /\ IF Truthy(target_client')
       THEN LET source_data == ClientData(client_matrix', source_client')
                target_data == ClientData(client_matrix', target_client')
            IN  /\ rev_lost' = RMul(transfer_amount', source_data.roas)
                /\ rev_gained' = RevGained(transfer_amount', source_data, target_data)
                /\ net_revenue_impact' = RSub(rev_gained', rev_lost')
                /\ new_total_rev' =
                      RAdd(FromInt(current_total_rev'), net_revenue_impact')
                /\ total_spend_global' = ColSum(filtered_df, "amount_spent")
                /\ old_global_roas' =
                      GlobalRoas(FromInt(current_total_rev'), total_spend_global')
                /\ new_global_roas' = GlobalRoas(new_total_rev', total_spend_global')
                /\ recommendation' = Recommendation(net_revenue_impact')
       ELSE UNCHANGED <<rev_lost, rev_gained, net_revenue_impact, new_total_rev,
                        total_spend_global, old_global_roas, new_global_roas,
                        recommendation>>
    /\ computed' =
          computed \cup {"client_matrix", "reallocation"}
                   \cup (IF Truthy(target_client') THEN {"projection"} ELSE {})
    /\ pc' = "export"
    /\ UNCHANGED <<df, tie_orders, last_run, widgets, viewVars, summaryVars, daily_trend, perfVars, trendVars,
                   industryVars, funnelVars, exportVars>>

\* the Strategy section with both sliders left at their defaults
StrategyQuadrantMatrix == Strategy({ReallocationDefault}, {TransferDefault})

\* the positions the two sliders are moved to
SliderStops == {0, 50, 100}

\* the Strategy section with both sliders moved
StrategyQuadrantMatrixSliders == Strategy(SliderStops, SliderStops)

\* lines 1158-1224
Export ==
    /\ pc = "export"
    /\ client_agg' = ClientAgg(filtered_df)
    /\ raw_data' = to_excel(filtered_df)
    /\ csv_data' = to_csv(filtered_df)
    /\ computed' = computed \cup {"export"}
    /\ pc' = "done"
    /\ UNCHANGED <<df, tie_orders, last_run, widgets, viewVars, summaryVars, daily_trend, perfVars, deepVars>>

\* any later interaction reruns the script from the top with the filter
\* widgets as they are; remembered is what stays known of the run that ends
Restart(remembered) ==
    /\ pc \in {"done", "stopped"}
    /\ last_run' = remembered
    /\ pc' = "filter"
    /\ computed' = {}
    /\ filtered_df' = <<>>
    /\ no_data' = FALSE
    /\ prev_start' = 0
    /\ prev_end' = 0
    /\ prev_filtered_df' = <<>>
    /\ curr_spend' = 0
    /\ curr_purchase' = 0
    /\ curr_roas' = NaN
    /\ curr_cpc' = NaN
    /\ curr_ctr' = NaN
    /\ prev_spend' = 0
    /\ prev_purchase' = 0
    /\ prev_roas' = NaN
    /\ prev_cpc' = NaN
    /\ prev_ctr' = NaN
    /\ delta_spend' = None
    /\ delta_purchase' = None
    /\ delta_roas' = None
    /\ delta_cpc' = None
    /\ delta_ctr' = None
    /\ top_client_name' = "unset"
    /\ top_client_val' = 0
    /\ best_obj_name' = "unset"
    /\ best_obj_val' = NaN
    /\ daily_trend' = <<>>
    /\ anomaly_error' = FALSE
    /\ anomalies' = <<>>
    /\ spend_by_client' = <<>>
    /\ roas_by_obj' = <<>>
    /\ overall_ctr' = NaN
    /\ overall_roas_metric' = NaN
    /\ roas_sales_only' = NaN
    /\ ctr_by_obj' = <<>>
    /\ selection' = "unset"
    /\ monthly_trend' = <<>>
    /\ ramadhan_lift' = NaN
    /\ weekend_lift' = NaN
    /\ anomaly_error_b2' = FALSE
    /\ anomalies_b2' = <<>>
    /\ industry_perf' = <<>>
    /\ client_perf' = <<>>
    /\ industry_sorted_rev' = <<>>
    /\ industry_sorted_roas' = <<>>
    /\ client_top_rev' = <<>>
    /\ funnel_number' = <<>>
    /\ funnel_ctr' = NaN
    /\ atc_rate' = NaN
    /\ cart_conv' = NaN
    /\ overall_cv' = NaN
    /\ client_matrix' = <<>>
    /\ traffic_spend' = 0
    /\ sales_roas_benchmark' = NaN
    /\ reallocation_pct' = 0
    /\ budget_moved' = NaN
    /\ potential_revenue_gain' = NaN
    /\ current_total_rev' = 0
    /\ projected_growth_pct' = NaN
    /\ source_client' = "unset"
    /\ target_client' = "unset"
    /\ transfer_pct' = 0
    /\ transfer_amount' = NaN
    /\ rev_lost' = NaN
    /\ rev_gained' = NaN
    /\ net_revenue_impact' = NaN
    /\ new_total_rev' = NaN
    /\ total_spend_global' = 0
    /\ old_global_roas' = NaN
    /\ new_global_roas' = NaN
    /\ recommendation' = "unset"
    /\ client_agg' = <<>>
    /\ raw_data' = NoTable
    /\ csv_data' = NoTable
    /\ UNCHANGED <<df, tie_orders, widgets>>

\* a rerun
Rerun == Restart(last_run)

\* a rerun after which the tables of the run that ends are remembered
RerunRemembering == Restart(ThisRun)

Next ==
    \/ Sidebar
    \/ ApplyFilters
    \/ ExecutiveSummary
    \/ PerformanceMetrics
    \/ TimeTrendAnalysis
    \/ IndustryClientBreakdown
    \/ MarketingFunnelAnalysis
    \/ StrategyQuadrantMatrix
    \/ Export
    \/ Rerun

Spec == Init /\ [][Next]_vars

-----------------------------------------------------------------------------
(* The previous-period derivation over every day the date picker offers *)

\* a store with rows on 2023-02-19, 2023-02-28, 2023-03-01 and 2023-03-10
DaysStore ==
    LET c == CHOOSE x \in Campaigns : x.amount_spent = 1
    IN  <<Row(Ordinal(2, 19), "Client A", c), Row(Ordinal(2, 28), "Client A", c),
          Row(Ordinal(3, 1), "Client A", c), Row(Ordinal(3, 10), "Client A", c)>>

InitDays ==
    /\ df = load_data(DaysStore)
    /\ tie_orders = <<>>
    /\ last_run = NoRun
    /\ start_date = min_date
    /\ end_date = max_date
    /\ selected_clients = client_list
    /\ selected_objectives = objective_list
    /\ pc = "sidebar"
    /\ computed = {}
    /\ Unset

\* lines 72-82: any range of days within [min_date, max_date]
SidebarDays ==
    /\ pc = "sidebar"
    /\ \E s \in min_date..max_date, e \in min_date..max_date :
          /\ s <= e
          /\ start_date' = s
          /\ end_date' = e
    /\ pc' = "filter"
    /\ UNCHANGED <<df, tie_orders, last_run, selected_clients, selected_objectives, computed,
                   viewVars, summaryVars, daily_trend, perfVars, deepVars, exportVars>>

NextDays ==
    \/ SidebarDays
    \/ ApplyFilters
    \/ ExecutiveSummary

SpecDays == InitDays /\ [][NextDays]_vars

-----------------------------------------------------------------------------
(* The script over stores with campaigns of differing returns, the funnel   *)
(* of the worked example, a table without the add_to_cart column and two    *)
(* clients of differing ROAS, with the sliders of the Strategy section moved *)

Campaign(objective, spent, value, shown, clicked, carted, bought) ==
    [campaign_objective |-> objective, amount_spent |-> spent,
     purchase_value |-> value, impressions |-> shown, clicks |-> clicked,
     add_to_cart |-> carted, purchase |-> bought]

\* two Sales campaign-days of one client with ROAS 2 and 1, and a Traffic one
ObjectiveMixStore ==
    <<Row(Ordinal(3, 21), "Client A", Campaign("Sales", 1, 2, 10, 1, 1, 1)),
      Row(Ordinal(3, 22), "Client A", Campaign("Sales", 3, 3, 20, 2, 1, 1)),
      Row(Ordinal(3, 22), "Client A", Campaign("Traffic", 2, 1, 20, 4, 0, 0))>>

\* impressions=10000, clicks=200, add_to_cart=40, purchase=10
FunnelStore ==
    <<Row(Ordinal(3, 21), "Client A", Campaign("Sales", 5, 10, 4000, 80, 15, 4)),
      Row(Ordinal(3, 22), "Client B", Campaign("Traffic", 5, 0, 6000, 120, 25, 6))>>

\* a table of marketing_data.csv without the add_to_cart column
WithoutCart(store) ==
    [i \in 1..Len(store) |->
        [col \in DOMAIN store[i] \ {"add_to_cart"} |-> store[i][col]]]

NoCartStore == WithoutCart(FunnelStore)

\* a client with spend 1,000,000 at ROAS 0.5 and a client at ROAS 2.0; the
\* amounts of this store are in thousands
TransferStore ==
    <<Row(Ordinal(3, 21), "Client A", Campaign("Sales", 1000, 500, 100, 10, 1, 1)),
      Row(Ordinal(3, 21), "Client B", Campaign("Sales", 1, 2, 10, 1, 1, 1)),
      Row(Ordinal(3, 22), "Client B", Campaign("Traffic", 1, 0, 10, 1, 0, 0))>>

\* a Sales campaign-day that did not run and a Traffic one
IdleStore ==
    <<Row(Ordinal(3, 21), "Client A", Campaign("Sales", 0, 0, 0, 0, 0, 0)),
      Row(Ordinal(3, 22), "Client B", Campaign("Traffic", 2, 0, 20, 0, 0, 0))>>

CaseStores ==
    {ObjectiveMixStore, FunnelStore, NoCartStore, TransferStore, IdleStore}

InitCases ==
    /\ df \in {load_data(s) : s \in CaseStores}
    /\ tie_orders = <<>>
    /\ last_run = NoRun
    /\ start_date = min_date
    /\ end_date = max_date
    /\ selected_clients = client_list
    /\ selected_objectives = objective_list
    /\ pc = "sidebar"
    /\ computed = {}
    /\ Unset

NextCases ==
    \/ Sidebar
    \/ ApplyFilters
    \/ ExecutiveSummary
    \/ PerformanceMetrics
    \/ TimeTrendAnalysis
    \/ IndustryClientBreakdown
    \/ MarketingFunnelAnalysis
    \/ StrategyQuadrantMatrixSliders
    \/ Export
    \/ Rerun

SpecCases == InitCases /\ [][NextCases]_vars

-----------------------------------------------------------------------------
(* Runs that follow one another on the same store with the same widgets *)

\* lines 72-100: the clients are picked, the other widgets keep their defaults
SidebarClients ==
    /\ pc = "sidebar"
    /\ selected_clients' \in SUBSET client_list
    /\ pc' = "filter"
    /\ UNCHANGED <<df, tie_orders, last_run, start_date, end_date,
                   selected_objectives, computed, viewVars, summaryVars,
                   daily_trend, perfVars, deepVars, exportVars>>

NextRuns ==
    \/ SidebarClients
    \/ ApplyFilters
    \/ ExecutiveSummary
    \/ PerformanceMetrics
    \/ TimeTrendAnalysis
    \/ IndustryClientBreakdown
    \/ MarketingFunnelAnalysis
    \/ StrategyQuadrantMatrix
    \/ Export
    \/ RerunRemembering

SpecRuns == Init /\ [][NextRuns]_vars

-----------------------------------------------------------------------------
(* The script over daily series that fill the rolling window *)

\* the daily revenues of a series
SeriesLevels == {100, 1000, 1900}

\* the base levels of a series
BaseLevels == {100, 1000}

\* the levels a day off the base takes: a spike above the low base, a drop
\* below the high one
OffLevels(base) == IF base = 100 THEN {1000, 1900} ELSE {100}

\* series of Window to MaxDays days at a base level, with at most MaxSpikes
\* days off the base
Series ==
    {v \in UNION {[1..n -> SeriesLevels] : n \in Window..MaxDays} :
        \E base \in BaseLevels :
            /\ \A i \in DOMAIN v : v[i] \in {base} \cup OffLevels(base)
            /\ Cardinality({i \in DOMAIN v : v[i] # base}) <= MaxSpikes}

\* one campaign-day of one client per day, from 2023-03-21 on
SeriesStore(v) ==
    [i \in 1..Len(v) |->
        Row(Ordinal(3, 20) + i, "Client A",
            Campaign("Sales", 100, v[i], 1000, 10, 1, 1))]

InitSeries ==
    /\ df \in {load_data(SeriesStore(v)) : v \in Series}
    /\ tie_orders = <<>>
    /\ last_run = NoRun
    /\ start_date = min_date
    /\ end_date = max_date
    /\ selected_clients = client_list
    /\ selected_objectives = objective_list
    /\ pc = "sidebar"
    /\ computed = {}
    /\ Unset

\* lines 72-82: the widgets are left at their defaults, the whole range
SidebarSeries ==
    /\ pc = "sidebar"
    /\ start_date' = min_date
    /\ pc' = "filter"
    /\ UNCHANGED <<df, tie_orders, last_run, end_date, selected_clients, selected_objectives, computed,
                   viewVars, summaryVars, daily_trend, perfVars, deepVars,
                   exportVars>>

NextSeries ==
    \/ SidebarSeries
    \/ ApplyFilters
    \/ ExecutiveSummary
    \/ PerformanceMetrics
    \/ TimeTrendAnalysis
    \/ Export
    \/ Rerun

SpecSeries == InitSeries /\ [][NextSeries]_vars

-----------------------------------------------------------------------------
(* Properties *)

\* the filter has been applied in this run
Filtered == pc \notin {"sidebar", "filter"}

\* the filter predicate of section 4.1 on row i of the store
Satisfies(i, first, last) ==
    /\ df[i].client_name \in selected_clients
    /\ df[i].campaign_objective \in selected_objectives
    /\ first <= df[i].created_date
    /\ df[i].created_date <= last

Matching(first, last) == {i \in 1..Len(df) : Satisfies(i, first, last)}

\* the k-th smallest member of the set of indices S
Kth(S, k) == CHOOSE i \in S : Cardinality({j \in S : j < i}) = k - 1

\* view holds exactly the rows of df with index in S, each once, in df's order
HoldsExactly(view, S) ==
    /\ Len(view) = Cardinality(S)
    /\ \A k \in 1..Len(view) :
          \A col \in StoreColumns : view[k][col] = df[Kth(S, k)][col]

RECURSIVE SumOver(_, _)
\* the sum of column col over the rows of df with index in S
SumOver(S, col) ==
    IF S = {} THEN 0
    ELSE LET i == CHOOSE j \in S : TRUE
         IN  df[i][col] + SumOver(S \ {i}, col)

\* C1: once the filters are applied (start <= end), the filtered view holds
\* exactly the rows of the store whose client is selected, whose objective is
\* selected and whose date lies in [start, end], both ends included
C1_FilterExact ==
    Filtered => /\ start_date <= end_date
                /\ HoldsExactly(filtered_df, Matching(start_date, end_date))

\* a view that keeps a row dated end_date and drops a row dated after it
C1_Witness ==
    /\ Filtered
    /\ \E i \in Matching(start_date, end_date) : df[i].created_date = end_date
    /\ \E i \in 1..Len(df) :
          /\ df[i].client_name \in selected_clients
          /\ df[i].campaign_objective \in selected_objectives
          /\ df[i].created_date > end_date

\* C2: the previous range ends the day before start and is as many days
\* long (inclusive) as the current range; 2023-03-01..2023-03-10 gives
\* 2023-02-19..2023-02-28
C2_PreviousRange ==
    "kpi" \in computed =>
        /\ prev_end = start_date - 1
        /\ prev_start = prev_end - (end_date - start_date)
        /\ (prev_end - prev_start) + 1 = (end_date - start_date) + 1
        /\ (start_date = Ordinal(3, 1) /\ end_date = Ordinal(3, 10)) =>
              (prev_start = Ordinal(2, 19) /\ prev_end = Ordinal(2, 28))

\* the previous range of 2023-03-01..2023-03-10 has been derived
C2_Witness ==
    /\ "kpi" \in computed
    /\ start_date = Ordinal(3, 1)
    /\ end_date = Ordinal(3, 10)
    /\ prev_filtered_df # <<>>

\* C3: an empty filtered view (an empty client or objective selection
\* included) shows the "no data" warning and stops the run before any
\* section is computed
C3_EmptyViewStops ==
    /\ (Filtered /\ filtered_df = <<>>) =>
          (pc = "stopped" /\ no_data /\ computed = {} /\ SummaryUnset /\ PerfUnset
           /\ DeepUnset /\ ExportUnset)
    /\ (Filtered /\ (selected_clients = {} \/ selected_objectives = {})) =>
          (filtered_df = <<>> /\ pc = "stopped")
    /\ computed # {} => filtered_df # <<>>

\* a run stopped on an empty view although clients and objectives are selected
C3_Witness ==
    /\ pc = "stopped"
    /\ no_data
    /\ selected_clients # {}
    /\ selected_objectives # {}

\* the five delta arguments of the headline cards
Deltas == {delta_spend, delta_purchase, delta_roas, delta_cpc, delta_ctr}

\* C4: the previous view holds exactly the rows that satisfy the same client
\* and objective predicate over [prev_start, prev_end]; when it is empty all
\* five deltas are None
C4_NoPriorPeriod ==
    "delta" \in computed =>
        /\ HoldsExactly(prev_filtered_df, Matching(prev_start, prev_end))
        /\ prev_filtered_df = <<>> => Deltas = {None}

\* deltas computed for a view with spend and revenue and no previous rows
C4_Witness ==
    /\ "delta" \in computed
    /\ prev_filtered_df = <<>>
    /\ curr_spend > 0
    /\ curr_purchase > 0
    /\ ~IsNaN(curr_ctr)

\* the five cards: current value, previous value, reported delta
Cards ==
    { <<FromInt(curr_spend), FromInt(prev_spend), delta_spend>>,
      <<FromInt(curr_purchase), FromInt(prev_purchase), delta_purchase>>,
      <<curr_roas, prev_roas, delta_roas>>,
      <<curr_cpc, prev_cpc, delta_cpc>>,
      <<curr_ctr, prev_ctr, delta_ctr>> }

RAbs(x) == IF x[1] < 0 THEN RNeg(x) ELSE x

\* shown is x printed with k decimals: the nearest multiple of 10^-k
Shows(shown, x, k) ==
    IF IsNaN(x) THEN shown = <<"nan", 0>>
    ELSE /\ shown[1] = "num"
         /\ ~RGt(RAbs(RSub(RMul(x, FromInt(Pow10(k))), FromInt(shown[2]))),
                 Norm(1, 2))

PercentChange(cur, prev) == RMul(RDiv(RSub(cur, prev), prev), FromInt(100))

\* C5 as stated: None when previous == 0, otherwise the reported change is
\* (current - previous) / previous * 100
C5_AlwaysPercentChange ==
    "delta" \in computed =>
        \A c \in Cards :
            IF c[2] = FromInt(0) THEN c[3] = None
            ELSE /\ c[3] # None
                 /\ \E k \in {1, 2} : Shows(c[3].value, PercentChange(c[1], c[2]), k)

\* C5 amended: None when previous == 0; otherwise a relative-change delta
\* reports (current - previous) / previous * 100 to one decimal and a
\* percentage-point delta reports current - previous to two decimals
C5_DeltaByFamily ==
    "delta" \in computed =>
        \A c \in Cards :
            IF c[2] = FromInt(0) THEN c[3] = None
            ELSE \/ /\ c[3].kind = "% vs Prev"
                    /\ Shows(c[3].value, PercentChange(c[1], c[2]), 1)
                 \/ /\ c[3].kind = "% (pts)"
                    /\ Shows(c[3].value, RSub(c[1], c[2]), 2)

\* a relative-change delta and a percentage-point delta are both reported,
\* and the percentage-point one differs from the relative change
C5_Witness ==
    /\ "delta" \in computed
    /\ delta_spend.kind = "% vs Prev"
    /\ delta_ctr.kind = "% (pts)"
    /\ ~Shows(delta_ctr.value, PercentChange(curr_ctr, prev_ctr), 2)

\* C6 as stated: CTR and ROAS are percentage-point deltas, spend, revenue
\* and CPC are relative-change deltas
C6_CtrAndRoasInPoints ==
    "delta" \in computed =>
        /\ {delta_ctr.kind, delta_roas.kind} \subseteq {"% (pts)", "None"}
        /\ {delta_spend.kind, delta_purchase.kind, delta_cpc.kind}
              \subseteq {"% vs Prev", "None"}

\* C6 amended: only CTR is a percentage-point delta; spend, revenue, ROAS
\* and CPC are relative-change deltas
C6_OnlyCtrInPoints ==
    "delta" \in computed =>
        /\ delta_ctr.kind \in {"% (pts)", "None"}
        /\ {delta_spend.kind, delta_purchase.kind, delta_roas.kind, delta_cpc.kind}
              \subseteq {"% vs Prev", "None"}

\* all five deltas are available
C6_Witness ==
    /\ "delta" \in computed
    /\ None \notin Deltas
    /\ delta_roas.kind = "% vs Prev"
    /\ delta_ctr.kind = "% (pts)"

\* C7: headline spend and revenue are the sums of amount_spent and of
\* purchase_value over exactly the rows that satisfy the filter predicate
C7_HeadlineSums ==
    "kpi" \in computed =>
        /\ curr_spend = SumOver(Matching(start_date, end_date), "amount_spent")
        /\ curr_purchase = SumOver(Matching(start_date, end_date), "purchase_value")

\* two rows with spend are summed
C7_Witness ==
    /\ "kpi" \in computed
    /\ Cardinality(Matching(start_date, end_date)) = 2
    /\ \A i \in Matching(start_date, end_date) : df[i].amount_spent > 0
    /\ curr_purchase > 0

\* the rows of the current view, as indices of the store
View == Matching(start_date, end_date)

RECURSIVE RatSumOver(_, _)
\* the sum of the rational column col over the rows of df with index in S
RatSumOver(S, col) ==
    IF S = {} THEN FromInt(0)
    ELSE LET i == CHOOSE j \in S : TRUE
         IN  RAdd(df[i][col], RatSumOver(S \ {i}, col))

\* the arithmetic mean of the per-row values of col that are defined
MeanOver(S, col) ==
    LET D == {i \in S : ~IsNaN(df[i][col])}
    IN  IF D = {} THEN NaN
        ELSE RDiv(RatSumOver(D, col), FromInt(Cardinality(D)))

\* sum(purchase_value) / sum(amount_spent) over S, 0 without spend
RatioOfSums(S) ==
    IF SumOver(S, "amount_spent") > 0
    THEN Norm(SumOver(S, "purchase_value"), SumOver(S, "amount_spent"))
    ELSE FromInt(0)

\* C8: the headline ROAS, CPC and CTR are means of the per-row roas, cpc and
\* ctr_percentage values, while Overall ROAS is sum(purchase_value) /
\* sum(amount_spent) and Overall CTR is sum(clicks) / sum(impressions) * 100
C8_DualConvention ==
    "performance" \in computed =>
        LET S == View
        IN  /\ curr_roas = MeanOver(S, "roas")
            /\ curr_cpc = MeanOver(S, "cpc")
            /\ curr_ctr = MeanOver(S, "ctr_percentage")
            /\ overall_roas_metric = RatioOfSums(S)
            /\ overall_ctr =
                  IF SumOver(S, "impressions") > 0
                  THEN Norm(SumOver(S, "clicks") * 100, SumOver(S, "impressions"))
                  ELSE FromInt(0)

\* every row of the view has a roas, and the two ROAS figures differ
C8_Witness ==
    /\ "performance" \in computed
    /\ \A i \in View : ~IsNaN(df[i].roas)
    /\ curr_roas # overall_roas_metric
    /\ curr_ctr # overall_ctr

\* the roas column of an aggregate
RoasOf(agg) == {agg[k].roas : k \in 1..Len(agg)}

\* C9 as stated: no ratio over a sum of spend, clicks or impressions is NaN
\* or infinite
C9_RatiosDefined ==
    /\ "performance" \in computed =>
          /\ IsFinite(overall_ctr)
          /\ IsFinite(overall_roas_metric)
          /\ IsFinite(roas_sales_only)
          /\ \A k \in 1..Len(ctr_by_obj) : IsFinite(ctr_by_obj[k].ctr)
    /\ \A x \in RoasOf(monthly_trend) \cup RoasOf(industry_perf)
              \cup RoasOf(client_perf) \cup RoasOf(client_matrix) : IsFinite(x)
    /\ "funnel" \in computed =>
          \A x \in {funnel_ctr, atc_rate, cart_conv, overall_cv} : IsFinite(x)
    /\ \A x \in RoasOf(client_agg) : IsFinite(x)

\* agg has one row per key of the view, and the row's roas is the ratio of
\* the sums over the view's rows with that key
RatioOfSumsPerKey(agg, AggKey(_), RowKey(_)) ==
    /\ \A i \in View :
          Cardinality({k \in 1..Len(agg) : AggKey(agg[k]) = RowKey(df[i])}) = 1
    /\ \A k \in 1..Len(agg) :
          LET S == {i \in View : RowKey(df[i]) = AggKey(agg[k])}
          IN  S # {} /\ agg[k].roas = RatioOfSums(S)

ClientKey(r) == r.client_name
IndustryKey(r) == r.industry
ClientIndustryKey(r) == <<r.client_name, r.industry>>
MonthKey(r) == r.month
RowMonth(r) == MonthOf(r.created_date)

\* C10: the roas of every client, month, industry and (client, industry)
\* aggregate row is sum(purchase_value) / sum(amount_spent) over the rows of
\* the group, 0 when the group has no spend
C10_AggregateRoas ==
    /\ "client_matrix" \in computed =>
          RatioOfSumsPerKey(client_matrix, ClientKey, ClientKey)
    /\ "monthly_trend" \in computed =>
          RatioOfSumsPerKey(monthly_trend, MonthKey, RowMonth)
    /\ "industry_perf" \in computed =>
          RatioOfSumsPerKey(industry_perf, IndustryKey, IndustryKey)
    /\ "client_perf" \in computed =>
          RatioOfSumsPerKey(client_perf, ClientIndustryKey, ClientIndustryKey)

\* a client whose aggregate roas differs from the mean of its rows' roas
C10_Witness ==
    /\ "client_matrix" \in computed
    /\ \E k \in 1..Len(client_matrix) :
          LET S == {i \in View : df[i].client_name = client_matrix[k].client_name}
          IN  /\ \A i \in S : ~IsNaN(df[i].roas)
              /\ client_matrix[k].roas # MeanOver(S, "roas")

\* the rows of the view with campaign objective obj
OfObjective(obj) == {i \in View : df[i].campaign_objective = obj}

\* C11 as stated: the ROAS of every objective with spend, in the "Average
\* ROAS by Campaign Objective" aggregate and in the most-efficient-objective
\* pick, is sum(purchase_value) / sum(amount_spent) over the objective's rows
C11_ObjectiveRoasOfSums ==
    "charts" \in computed =>
        /\ \A k \in 1..Len(roas_by_obj) :
              LET S == OfObjective(roas_by_obj[k].campaign_objective)
              IN  SumOver(S, "amount_spent") > 0 =>
                     roas_by_obj[k].roas = RatioOfSums(S)
        /\ SumOver(OfObjective(best_obj_name), "amount_spent") > 0 =>
              best_obj_val = RatioOfSums(OfObjective(best_obj_name))

\* the place of a name in the lexical order of its column
LexRank(name, order) == CHOOSE k \in 1..Len(order) : order[k] = name

\* ranked is in descending order of keys, and rows with equal keys are in
\* ascending lexical order of names
RankedWithTieBreak(ranked, keys, names, order) ==
    \A i, j \in 1..Len(ranked) :
        i < j => \/ RGt(keys[i], keys[j])
                 \/ /\ keys[i] = keys[j]
                    /\ LexRank(names[i], order) < LexRank(names[j], order)

\* C12 as stated: the industries by total revenue, the industries by ROAS
\* and the clients by revenue are in descending order of their metric, and
\* entities with equal metric values are in ascending lexical order of name
C12_RankedTieBreak ==
    "industry_perf" \in computed =>
        /\ RankedWithTieBreak(industry_sorted_rev,
                              IntColumn(industry_sorted_rev, "total_revenue"),
                              Column(industry_sorted_rev, "industry"), IndustryOrder)
        /\ RankedWithTieBreak(industry_sorted_roas,
                              Column(industry_sorted_roas, "roas"),
                              Column(industry_sorted_roas, "industry"), IndustryOrder)
        /\ RankedWithTieBreak(client_top_rev,
                              IntColumn(client_top_rev, "purchase_value"),
                              Column(client_top_rev, "client_name"), ClientOrder)

\* stage / previous * 100, or 0 when previous is 0
StageRate(stage, previous) ==
    IF previous = 0 THEN FromInt(0) ELSE Norm(stage * 100, previous)

\* C13: the funnel stages are the sums of impressions, clicks, add_to_cart
\* (0 when the table has no such column) and purchase over the view; each
\* rate is stage[i] / stage[i-1] * 100, the overall rate purchase / clicks *
\* 100, and 0 when the denominator is 0; 10000, 200, 40, 10 give 2, 20, 25, 5
C13_FunnelRates ==
    "funnel" \in computed =>
        /\ funnel_number =
              << SumOver(View, "impressions"), SumOver(View, "clicks"),
                 IF "add_to_cart" \in DOMAIN df[1]
                 THEN SumOver(View, "add_to_cart") ELSE 0,
                 SumOver(View, "purchase") >>
        /\ funnel_ctr = StageRate(funnel_number[2], funnel_number[1])
        /\ atc_rate = StageRate(funnel_number[3], funnel_number[2])
        /\ cart_conv = StageRate(funnel_number[4], funnel_number[3])
        /\ overall_cv = StageRate(funnel_number[4], funnel_number[2])
        /\ funnel_number = <<10000, 200, 40, 10>> =>
              /\ funnel_ctr = FromInt(2)
              /\ atc_rate = FromInt(20)
              /\ cart_conv = FromInt(25)
              /\ overall_cv = FromInt(5)

\* the funnel of the worked example has been computed
C13_Witness ==
    /\ "funnel" \in computed
    /\ funnel_number = <<10000, 200, 40, 10>>
    /\ cart_conv = FromInt(25)

\* the days of the daily series of the view, and the revenue of a day
Days == {df[i].created_date : i \in View}

DayRevenue(d) == SumOver({i \in View : df[i].created_date = d}, "purchase_value")

\* the points of the series before the point of day d
Predecessors(d) == {e \in Days : e < d}

\* the daily series of the view: the revenue of each of its days
DailySeries == [d \in Days |-> DayRevenue(d)]

\* the 7 consecutive points of a series that end at and include the point of
\* day d
Last7(series, d) ==
    {e \in DOMAIN series :
        e <= d /\ Cardinality({f \in DOMAIN series : e < f /\ f <= d}) < 7}

RECURSIVE SumRevenue(_, _)
SumRevenue(series, D) ==
    IF D = {} THEN 0
    ELSE LET d == CHOOSE e \in D : TRUE
         IN  series[d] + SumRevenue(series, D \ {d})

RECURSIVE SumSquaredSpread(_, _, _)
\* the sum over the days e of D of (7 * x(e) - total)^2
SumSquaredSpread(series, D, total) ==
    IF D = {} THEN 0
    ELSE LET d == CHOOSE e \in D : TRUE
             spread == 7 * series[d] - total
         IN  spread * spread + SumSquaredSpread(series, D \ {d}, total)

\* the value x of day d is strictly outside [m - 2s, m + 2s] for the mean m
\* and the sample standard deviation s of Last7(series, d): with S the sum of
\* the 7 values, |x - m| > 2s is 6 * (7x - S)^2 > 4 * sum of (7x(e) - S)^2
OutsideBand(series, d) ==
    LET last7 == Last7(series, d)
        total == SumRevenue(series, last7)
        spread == 7 * series[d] - total
    IN  6 * spread * spread > 4 * SumSquaredSpread(series, last7, total)

\* the days of the flagged rows
FlaggedDays(flagged) == {flagged[k].created_date : k \in 1..Len(flagged)}

\* the detector flags exactly the points with 6 predecessors that are
\* outside their band
FlagsOutsideBand(flagged) ==
    LET series == DailySeries
        flagged_days == FlaggedDays(flagged)
    IN  \A d \in DOMAIN series :
            Cardinality({e \in DOMAIN series : e < d}) >= 6 =>
                (d \in flagged_days <=> OutsideBand(series, d))

\* the view is the flat series of 100 over 10 days with 1000 on day 8
FlatWithSpikeOnDay8 ==
    /\ Len(df) = 10
    /\ View = 1..10
    /\ \A i \in 1..10 : df[i].purchase_value = IF i = 8 THEN 1000 ELSE 100

\* C14: in a daily series of at least 8 points, on the Overview tab and in
\* the Time & Trend section, a point with at least 6 predecessors is flagged
\* if and only if its value is strictly outside [m - 2s, m + 2s], m the mean
\* and s the sample standard deviation of the 7 points ending at it; the flat
\* series of 100 over 10 days with 1000 on day 8 has day 8 and no other flagged
C14_AnomalyBand ==
    /\ ("charts" \in computed /\ ~anomaly_error /\ Cardinality(Days) >= 8) =>
          /\ FlagsOutsideBand(anomalies)
          /\ FlatWithSpikeOnDay8 => FlaggedDays(anomalies) = {df[8].created_date}
    /\ ("daily_revenue" \in computed /\ ~anomaly_error_b2 /\ Cardinality(Days) >= 8) =>
          /\ FlagsOutsideBand(anomalies_b2)
          /\ FlatWithSpikeOnDay8 => FlaggedDays(anomalies_b2) = {df[8].created_date}

\* the flat series with the spike on day 8 has been screened twice
C14_Witness ==
    /\ "daily_revenue" \in computed
    /\ FlatWithSpikeOnDay8
    /\ Len(anomalies) = 1
    /\ Len(anomalies_b2) = 1

\* C15: the first 6 points of a daily series, those with fewer than 6
\* predecessors, are never flagged, whatever the values
C15_FirstSixNeverFlagged ==
    \A d \in Days :
        Cardinality(Predecessors(d)) < 6 =>
            d \notin FlaggedDays(anomalies) \cup FlaggedDays(anomalies_b2)

\* a later point is flagged in a series whose first 6 points hold a point
\* off the level of the others
C15_Witness ==
    /\ "daily_revenue" \in computed
    /\ anomalies # <<>>
    /\ anomalies_b2 # <<>>
    /\ \E d \in Days, e \in Days :
          /\ Cardinality(Predecessors(d)) < 6
          /\ Cardinality(Predecessors(e)) < 6
          /\ DayRevenue(d) # DayRevenue(e)

\* C16: a daily series of fewer than 8 points gets an empty anomaly set and
\* raises nothing; a failure inside the detection step leaves an empty
\* anomaly set and the run goes on with the sections that follow
C16_InsufficientHistory ==
    /\ ("charts" \in computed /\ Cardinality(Days) < 8) =>
          (anomalies = <<>> /\ ~anomaly_error)
    /\ ("daily_revenue" \in computed /\ Cardinality(Days) < 8) =>
          (anomalies_b2 = <<>> /\ ~anomaly_error_b2)
    /\ anomaly_error =>
          (anomalies = <<>> /\ roas_by_obj # <<>> /\ pc # "stopped")
    /\ anomaly_error_b2 =>
          (anomalies_b2 = <<>> /\ pc \in {"export", "done"})

\* a run that went to its end although both detections failed
C16_Witness ==
    /\ anomaly_error
    /\ anomaly_error_b2
    /\ pc = "done"
    /\ "export" \in computed

\* the rows of the view of a client, the client's spend and its ROAS
OfClient(client) == {i \in View : df[i].client_name = client}

SpendOf(client) == SumOver(OfClient(client), "amount_spent")

RoasOfClient(client) == RatioOfSums(OfClient(client))

\* revenue / spend, 0 without spend
PerSpend(revenue, spend) ==
    IF spend > 0 THEN RDiv(revenue, FromInt(spend)) ELSE FromInt(0)

\* C17: every projection of the client-to-client simulator follows the
\* constant-ROAS linear model: transfer_amount = source_spend * pct / 100,
\* revenue_lost = transfer_amount * source_roas, revenue_gained =
\* transfer_amount * target_roas, net_impact = gained - lost, new revenue =
\* current revenue + net_impact, old and new global ROAS over the same total
\* spend; spend 1,000,000 at ROAS 0.5 moved by 50% to ROAS 2.0 gives 500,000,
\* 250,000, 1,000,000 and 750,000 (amounts in thousands)
C17_LinearProjection ==
    "projection" \in computed =>
        LET amount == Norm(SpendOf(source_client) * transfer_pct, 100)
            lost == RMul(amount, RoasOfClient(source_client))
            gained == RMul(amount, RoasOfClient(target_client))
            revenue == SumOver(View, "purchase_value")
            spend == SumOver(View, "amount_spent")
        IN  /\ transfer_amount = amount
            /\ rev_lost = lost
            /\ rev_gained = gained
            /\ net_revenue_impact = RSub(gained, lost)
            /\ new_total_rev = RAdd(FromInt(revenue), RSub(gained, lost))
            /\ total_spend_global = spend
            /\ old_global_roas = PerSpend(FromInt(revenue), spend)
            /\ new_global_roas = PerSpend(new_total_rev, spend)
            /\ ( /\ SpendOf(source_client) = 1000
                 /\ RoasOfClient(source_client) = Norm(1, 2)
                 /\ RoasOfClient(target_client) = FromInt(2)
                 /\ transfer_pct = 50 ) =>
                  /\ transfer_amount = FromInt(500)
                  /\ rev_lost = FromInt(250)
                  /\ rev_gained = FromInt(1000)
                  /\ net_revenue_impact = FromInt(750)

\* the projection of the worked example
C17_Witness ==
    /\ "projection" \in computed
    /\ SpendOf(source_client) = 1000
    /\ RoasOfClient(source_client) = Norm(1, 2)
    /\ RoasOfClient(target_client) = FromInt(2)
    /\ transfer_pct = 50
    /\ net_revenue_impact = FromInt(750)

\* the clients of the view
ViewClients == {df[i].client_name : i \in View}

\* C18: the simulator's target is never its source; a projection is
\* computed only for a target among the other clients of the view, and none
\* when the view holds a single client; the transfer percentage is within
\* [0, 100] and the source spend is not negative
C18_DistinctEntities ==
    "client_matrix" \in computed =>
        /\ source_client \in ViewClients
        /\ target_client # source_client
        /\ "projection" \in computed <=> target_client \in ViewClients \ {source_client}
        /\ Cardinality(ViewClients) = 1 =>
              /\ "projection" \notin computed
              /\ target_client = NoSelection
              /\ IsNaN(net_revenue_impact)
        /\ transfer_pct \in 0..100
        /\ SpendOf(source_client) >= 0
        /\ ~RLt(transfer_amount, FromInt(0))

\* a view of a single client with the whole of its budget put up for transfer
C18_Witness ==
    /\ "client_matrix" \in computed
    /\ Cardinality(ViewClients) = 1
    /\ transfer_pct = 100
    /\ RGt(transfer_amount, FromInt(0))

\* the Sales rows of the view
SalesRows == OfObjective("Sales")

\* C19 as stated: the benchmark is sum(purchase_value) / sum(amount_spent)
\* of the Sales rows whenever the view has a Sales row, and the fallback
\* constant only when it has none
C19_FallbackOnlyWithoutSales ==
    "reallocation" \in computed =>
        IF SalesRows # {}
        THEN sales_roas_benchmark =
                Norm(SumOver(SalesRows, "purchase_value"),
                     SumOver(SalesRows, "amount_spent"))
        ELSE sales_roas_benchmark = Norm(162, 100)

\* C19 amended: the benchmark is sum(purchase_value) / sum(amount_spent) of
\* the Sales rows when the view has Sales rows with spend, and the fallback
\* constant 1.62 when it has no Sales row or its Sales rows have no spend
C19_FallbackWithoutSalesSpend ==
    "reallocation" \in computed =>
        IF SalesRows # {} /\ SumOver(SalesRows, "amount_spent") > 0
        THEN sales_roas_benchmark =
                Norm(SumOver(SalesRows, "purchase_value"),
                     SumOver(SalesRows, "amount_spent"))
        ELSE sales_roas_benchmark = Norm(162, 100)

\* the fallback is used for a view whose Sales rows have no spend
C19_Witness ==
    /\ "reallocation" \in computed
    /\ SalesRows # {}
    /\ SumOver(SalesRows, "amount_spent") = 0
    /\ sales_roas_benchmark = Norm(162, 100)
    /\ traffic_spend > 0

\* C20: no step of a run changes the Record Store: through filtering,
\* metrics, aggregation, anomaly detection, simulation and export the loaded
\* table keeps its rows, columns and values, and the view is a table of its own
C20_StoreUnchanged == [][df' = df]_vars

\* the Time & Trend section has added its month column to a view that is a
\* part of the store, and the store has no such column
C20_Witness ==
    /\ "monthly_trend" \in computed
    /\ "export" \in computed
    /\ Len(filtered_df) < Len(df)
    /\ "month" \in DOMAIN filtered_df[1]
    /\ \A i \in 1..Len(df) : DOMAIN df[i] = StoreColumns

\* a run went before this one, on the same store and with the same arguments
SameArguments ==
    /\ last_run.computed # {}
    /\ last_run.store = df
    /\ last_run.arguments = widgets

\* a section that ran in this run and in the run before it
RanTwice(section) == section \in computed \cap last_run.computed

OfIndustry(industry) == {i \in View : df[i].industry = industry}

ViewIndustries == {df[i].industry : i \in View}

\* the revenue of a client and of an industry, and the ROAS of an industry
ClientRevenue(client) == FromInt(SumOver(OfClient(client), "purchase_value"))

IndustryRevenue(industry) == FromInt(SumOver(OfIndustry(industry), "purchase_value"))

IndustryRoas(industry) == RatioOfSums(OfIndustry(industry))

\* pick is an entity whose metric is at least that of every other entity
IsArgmax(pick, entities, Metric(_)) ==
    /\ pick \in entities
    /\ \A e \in entities : ~RGt(Metric(e), Metric(pick))

\* pick has the lexically smallest name among the entities with its metric
IsFirstOfTied(pick, entities, Metric(_), order) ==
    \A e \in entities :
        Metric(e) = Metric(pick) => LexRank(pick, order) <= LexRank(e, order)

\* pick is the top-1 of the ranking by Metric with the lexical tie-break
IsTopPick(pick, entities, Metric(_), order) ==
    /\ IsArgmax(pick, entities, Metric)
    /\ IsFirstOfTied(pick, entities, Metric, order)

\* C22 as stated: the market-dominance client, the winning industry, the
\* hero client and the most efficient industry each have a metric that no
\* other entity of the view exceeds, and among the entities tied for the
\* maximum the pick is the lexically smallest name
C22_TopPicks ==
    /\ "highlights" \in computed =>
          IsTopPick(top_client_name, ViewClients, ClientRevenue, ClientOrder)
    /\ "industry_perf" \in computed =>
          /\ IsTopPick(industry_sorted_rev[1].industry, ViewIndustries,
                       IndustryRevenue, IndustryOrder)
          /\ IsTopPick(client_top_rev[1].client_name, ViewClients,
                       ClientRevenue, ClientOrder)
          /\ IsTopPick(industry_sorted_roas[1].industry, ViewIndustries,
                       IndustryRoas, IndustryOrder)

\* the net effect of the two-entity simulator: moved * target_roas minus
\* moved * source_roas
NetEffect(moved, source_roas, target_roas) ==
    RSub(RMul(moved, target_roas), RMul(moved, source_roas))

\* C23 as stated: the Traffic-to-Sales reallocation moves the slider's share
\* of the total Traffic spend, and its projected revenue effect is that of
\* the two-entity simulator with the Traffic category as the source and the
\* Sales benchmark as the target ROAS: moved * benchmark - moved * Traffic ROAS
C23_CategoryReallocation ==
    "reallocation" \in computed =>
        /\ budget_moved =
              Norm(SumOver(OfObjective("Traffic"), "amount_spent") * reallocation_pct, 100)
        /\ potential_revenue_gain =
              NetEffect(budget_moved, RatioOfSums(OfObjective("Traffic")),
                        sales_roas_benchmark)

\* the days of a range
Range(first, last) == first..last

\* C24: the previous range ends on the day before the current range starts,
\* the two ranges have no day in common, and no record of the store is in
\* both the current view and the previous view
C24_DisjointRanges ==
    "kpi" \in computed =>
        /\ prev_end + 1 = start_date
        /\ Range(prev_start, prev_end) \cap Range(start_date, end_date) = {}
        /\ HoldsExactly(filtered_df, Matching(start_date, end_date))
        /\ HoldsExactly(prev_filtered_df, Matching(prev_start, prev_end))
        /\ Matching(start_date, end_date) \cap Matching(prev_start, prev_end) = {}

\* the store has a record on the last day of the previous range and one on
\* the first day of the current range
C24_Witness ==
    /\ "kpi" \in computed
    /\ \E k \in 1..Len(prev_filtered_df) : prev_filtered_df[k].created_date = prev_end
    /\ \E k \in 1..Len(filtered_df) : filtered_df[k].created_date = start_date

DayKey(r) == r.created_date
ObjectiveKey(r) == r.campaign_objective

\* the records of the set S that belong to each row of an aggregate
GroupOf(S, agg, AggKey(_), RowKey(_)) ==
    [k \in 1..Len(agg) |-> {i \in S : RowKey(df[i]) = AggKey(agg[k])}]

\* the sum of col over the records of each group
GroupSums(groups, col) ==
    [k \in 1..Len(groups) |-> SumOver(groups[k], col)]

\* an aggregate without a column for the spend or for the revenue
NoColumn == "no column"

\* column agg_col of the aggregate, where it has one, holds the sums
Carries(agg, agg_col, sums) ==
    agg_col # NoColumn => \A k \in 1..Len(agg) : agg[k][agg_col] = sums[k]

\* every record of S belongs to exactly one row of the aggregate, the spend
\* and the revenue of the groups add up to spend and revenue, the totals of
\* S, and the spend and revenue columns of the aggregate hold the sums of
\* the groups
Conserves(S, spend, revenue, agg, AggKey(_), RowKey(_), spend_col, revenue_col) ==
    LET groups == GroupOf(S, agg, AggKey, RowKey)
        spends == GroupSums(groups, "amount_spent")
        revenues == GroupSums(groups, "purchase_value")
    IN  /\ \A i \in S :
              Cardinality({k \in 1..Len(agg) : i \in groups[k]}) = 1
        /\ SumInts(spends) = spend
        /\ SumInts(revenues) = revenue
        /\ Carries(agg, spend_col, spends)
        /\ Carries(agg, revenue_col, revenues)

\* C25: in every aggregate by day, month, client, industry, objective and
\* (client, industry), each record of the view belongs to exactly one row,
\* and the per-group sums of amount_spent and purchase_value add up to the
\* total spend and the total revenue of the view
C25_GroupingConserves ==
    LET S == View
        spend == SumOver(S, "amount_spent")
        revenue == SumOver(S, "purchase_value")
    IN  /\ "charts" \in computed =>
              /\ Conserves(S, spend, revenue, spend_by_client, ClientKey, ClientKey,
                           "amount_spent", NoColumn)
              /\ Conserves(S, spend, revenue, roas_by_obj, ObjectiveKey,
                           ObjectiveKey, NoColumn, NoColumn)
        /\ ("charts" \in computed /\ "daily_revenue" \notin computed) =>
              Conserves(S, spend, revenue, daily_trend, DayKey, DayKey,
                        "amount_spent", "purchase_value")
        /\ "performance" \in computed =>
              Conserves(S, spend, revenue, ctr_by_obj, ObjectiveKey, ObjectiveKey,
                        NoColumn, NoColumn)
        /\ "daily_revenue" \in computed =>
              Conserves(S, spend, revenue, daily_trend, DayKey, DayKey,
                        NoColumn, "purchase_value")
        /\ "monthly_trend" \in computed =>
              Conserves(S, spend, revenue, monthly_trend, MonthKey, RowMonth,
                        "amount_spent", "purchase_value")
        /\ "industry_perf" \in computed =>
              Conserves(S, spend, revenue, industry_perf, IndustryKey, IndustryKey,
                        "total_spend", "total_revenue")
        /\ "client_perf" \in computed =>
              Conserves(S, spend, revenue, client_perf, ClientIndustryKey,
                        ClientIndustryKey, "amount_spent", "purchase_value")
        /\ "client_matrix" \in computed =>
              Conserves(S, spend, revenue, client_matrix, ClientKey, ClientKey,
                        "amount_spent", "purchase_value")

\* a view of two records of one industry on two days has been grouped: one
\* group of two records by industry, two groups of one record by day
C25_Witness ==
    /\ "industry_perf" \in computed
    /\ Len(filtered_df) = 2
    /\ Len(daily_trend) = 2
    /\ Len(industry_perf) = 1
    /\ industry_perf[1].total_spend > filtered_df[1].amount_spent
    /\ filtered_df[1].amount_spent > 0

\* table has exactly the columns of the store and one line per record of the
\* view, with the record's values
IsViewOfStore(table) ==
    /\ table.columns = Columns(df)
    /\ Len(table.rows) = Cardinality(View)
    /\ \A k \in 1..Len(table.rows) :
          /\ DOMAIN table.rows[k] = Columns(df)
          /\ \A col \in Columns(df) : table.rows[k][col] = df[Kth(View, k)][col]

\* C26 as stated: whichever Deep Dive section is selected, the Raw Data
\* sheet and the CSV hold the view with exactly the columns of the store, and
\* a run with the filters of the run before it exports what that run did
C26_ExportIndependentOfNavigation ==
    "export" \in computed =>
        /\ IsViewOfStore(raw_data)
        /\ IsViewOfStore(csv_data)
        /\ (SameArguments /\ "export" \in last_run.computed) =>
              /\ raw_data = last_run.raw_data
              /\ csv_data = last_run.csv_data

\* the simulator reports the strategy as profitable, as loss-making
Profitable == recommendation = "success"

LossMaking == recommendation = "error"

\* the amount the simulator moves is positive and the target client's ROAS
\* is above the source client's
MovesToBetter ==
    /\ SpendOf(source_client) * transfer_pct > 0
    /\ RGt(RoasOfClient(target_client), RoasOfClient(source_client))

\* C27: the simulator reports the strategy as profitable exactly when
\* net_impact > 0, which is exactly when the amount moved is positive and the
\* target ROAS is above the source ROAS; in every other case it reports it
\* as loss-making, and with a 0% transfer or equal ROAS net_impact is 0 and
\* the global ROAS is unchanged
C27_ProfitableIffGain ==
    "projection" \in computed =>
        /\ Profitable <=> RGt(net_revenue_impact, FromInt(0))
        /\ RGt(net_revenue_impact, FromInt(0)) <=> MovesToBetter
        /\ ~MovesToBetter => LossMaking
        /\ (transfer_pct = 0
            \/ RoasOfClient(target_client) = RoasOfClient(source_client)) =>
              /\ net_revenue_impact = FromInt(0)
              /\ new_global_roas = old_global_roas
              /\ LossMaking

\* nothing is moved towards a client with a higher ROAS: no gain, reported
\* as loss-making
C27_Witness ==
    /\ "projection" \in computed
    /\ transfer_pct = 0
    /\ SpendOf(source_client) > 0
    /\ RGt(RoasOfClient(target_client), RoasOfClient(source_client))
    /\ net_revenue_impact = FromInt(0)
    /\ LossMaking

\* the records of the view with a flag set, and the others
FlaggedRecords(flag) == {i \in View : df[i][flag]}

OtherRecords(flag) == {i \in View : ~df[i][flag]}

\* the mean revenue of a non-empty set of records
MeanRevenue(S) == Norm(SumOver(S, "purchase_value"), Cardinality(S))

\* lift is a number: (mean revenue of the flagged records - mean revenue
\* of the others) / mean of the others * 100 when both groups have records
\* and the others' mean is positive, 0 otherwise
IsLift(lift, flag) ==
    LET flagged == FlaggedRecords(flag)
        others == OtherRecords(flag)
    IN  /\ ~IsNaN(lift)
        /\ lift =
              IF flagged # {} /\ others # {}
                 /\ RGt(MeanRevenue(others), FromInt(0))
              THEN RMul(RDiv(RSub(MeanRevenue(flagged), MeanRevenue(others)),
                             MeanRevenue(others)),
                        FromInt(100))
              ELSE FromInt(0)

\* C28 as stated: the Ramadhan lift and the weekend lift of a non-empty view
\* are numbers, the relative difference in percent of the two group means
\* when both groups have records and the unflagged mean is positive, and 0,
\* never NaN, when a group has no records or the unflagged mean is 0
C28_LiftsDefined ==
    "lifts" \in computed =>
        /\ IsLift(ramadhan_lift, "is_ramadhan")
        /\ IsLift(weekend_lift, "is_weekend")

=============================================================================
